---------------------------- MODULE Spec2Model ----------------------------
(***************************************************************************)
(* Model of the PseudonymHandler client driver (PatientController.java,    *)
(* lines 664-1293 hold the JavaScript module): the patient record, the     *)
(* pseudonymization protocol (createPseudonyms, resolveConflicts,          *)
(* getPseudonym), the batch orchestration (handlePseudonymization,         *)
(* sendPatients, requestPatients) and the external services as the         *)
(* environment that answers each fetch.                                    *)
(*                                                                         *)
(* One asynchronous invocation of the driver runs at a time.  Each `await  *)
(* fetch` is split in three: the driver issues the request (inflight),     *)
(* the environment answers (response), the driver resumes.                 *)
(***************************************************************************)
EXTENDS Integers, Sequences, FiniteSets, TLC

(***************************************************************************)
(* Bounds of the model.                                                    *)
(***************************************************************************)
NumKeys == 2
MaxTokens == 3
MaxCalls == 2
MaxEdits == 1
MaxFaults == 2

(***************************************************************************)
(* JavaScript values.  Strings that the code concatenates or splits are    *)
(* tuples; null is the empty tuple, so that it compares with them.         *)
(***************************************************************************)
Null == <<>>
Undefined == <<"undefined">>
JSNull == "null"
JSTrue == "true"
JSFalse == "false"
JSUndefined == "undefined"
UndefinedKey == 0

Keys == 1..NumKeys

(***************************************************************************)
(* PatientStatus                                                           *)
(***************************************************************************)
IDAT_CONFLICT == -3
TOKEN_INVALID == -2
IDAT_INVALID == -1
CREATED == 0
PSEUDONYMIZED == 1
PROCESSED == 11
NOT_PROCESSED == 12
FOUND == 21
NOT_FOUND == 22

FailureStatuses == {IDAT_CONFLICT, TOKEN_INVALID, IDAT_INVALID}
PostSyncStatuses == {PROCESSED, NOT_PROCESSED, FOUND, NOT_FOUND}

(***************************************************************************)
(* Caller inputs.  Names are sequences of characters, a birthday is what   *)
(* `new Date(birthday)` makes of the input: NaN, or an instant, held as    *)
(* its calendar date and its time of day (0 is midnight).                  *)
(***************************************************************************)
FirstNames == { <<"A">>, <<" ", "A">>, <<" ">> }
LastNames == { <<"x">>, <<"y", " ">>, <<>> }
NaNDate == [year |-> 0, month |-> 0, day |-> 0, time |-> 0]
Now == [year |-> 2026, month |-> 11, day |-> 4, time |-> 0]
Birthdays == { [year |-> 2000, month |-> 1, day |-> 1, time |-> 0],
               [year |-> 2030, month |-> 12, day |-> 24, time |-> 0],
               NaNDate }
Mdats == { "", "m" }
ApiVersions == { "1.0", "3.0" }

(***************************************************************************)
(* String.prototype.trim on a sequence of characters.                      *)
(***************************************************************************)
RECURSIVE TrimLeft(_)
TrimLeft(s) ==
    IF s # <<>> /\ Head(s) = " " THEN TrimLeft(Tail(s)) ELSE s

RECURSIVE TrimRight(_)
TrimRight(s) ==
    IF s # <<>> /\ s[Len(s)] = " " THEN TrimRight(SubSeq(s, 1, Len(s) - 1)) ELSE s

Trim(s) == TrimRight(TrimLeft(s))

(* Date.prototype.getTime, up to a monotone rescaling of the calendar. *)
GetTime(d) == ((d.year * 12 + (d.month - 1)) * 31 + (d.day - 1)) * 2 + d.time

IsNaNDate(d) == d = NaNDate

(***************************************************************************)
(* createIDAT: TRUE when no exception is thrown, and the IDAT returned.    *)
(***************************************************************************)
(* a validation that tests the names before trimming them *)
createIDATValidUntrimmed(firstname, lastname, birthday) ==
    /\ firstname # <<>>
    /\ lastname # <<>>
    /\ ~IsNaNDate(birthday)
    /\ ~(GetTime(birthday) > GetTime(Now))

(* a validation that lets a birthday in the future pass *)
createIDATValidNoFuture(firstname, lastname, birthday) ==
    /\ Trim(firstname) # <<>>
    /\ Trim(lastname) # <<>>
    /\ ~IsNaNDate(birthday)

createIDATValid(firstname, lastname, birthday) ==
    /\ Trim(firstname) # <<>>
    /\ Trim(lastname) # <<>>
    /\ ~IsNaNDate(birthday)
    /\ ~(GetTime(birthday) > GetTime(Now))

createIDAT(firstname, lastname, birthday) ==
    [firstname |-> Trim(firstname), lastname |-> Trim(lastname), birthday |-> birthday]

Idats ==
    { createIDAT(f, l, b) : <<f, l, b>> \in
        { t \in FirstNames \X LastNames \X Birthdays : createIDATValid(t[1], t[2], t[3]) } }

(***************************************************************************)
(* createPatient                                                           *)
(***************************************************************************)
createPatient(firstname, lastname, birthday, mdat) ==
    [status |-> CREATED,
     sureness |-> FALSE,
     pseudonym |-> Null,
     idat |-> createIDAT(firstname, lastname, birthday),
     mdat |-> mdat,
     tentative |-> FALSE,
     tokenURL |-> Null,
     tokenUseCallback |-> JSNull]

(***************************************************************************)
(* Token URLs: mainzellisteUrl + "patients?tokenId=" + tokenId.            *)
(* A token id is the string <<"tok", n>>; a patient id (PID) issued by the *)
(* record-linkage service is the string <<"pid", ...>>.                    *)
(***************************************************************************)
TokenId(n) == <<"tok", n>>
TokenURL(n) == <<"patients?tokenId", "=", TokenId(n)>>

(* requestURL.split("=")[1] *)
SplitEq1(url) == url[3]

(* two-digit day and month of the request body *)
Pad2(n) == IF n < 10 THEN <<0, n>> ELSE <<n \div 10, n % 10>>

(* The form body built by getPseudonym. *)
RequestBody(patient) ==
    [vorname |-> patient.idat.firstname,
     nachname |-> patient.idat.lastname,
     geburtstag |-> Pad2(patient.idat.birthday.day),
     geburtsmonat |-> Pad2(patient.idat.birthday.month),
     geburtsjahr |-> patient.idat.birthday.year,
     sureness |-> patient.sureness]

(***************************************************************************)
(* JavaScript property read and Array.prototype.concat.  Reading a         *)
(* property an object does not have yields undefined; concat appends a     *)
(* non-array argument as one element.                                      *)
(***************************************************************************)
Prop(obj, name) ==
    IF name \in DOMAIN obj
    THEN [defined |-> TRUE, value |-> obj[name]]
    ELSE [defined |-> FALSE]

Concat(list, pv) ==
    IF pv.defined THEN list \o pv.value ELSE Append(list, UndefinedKey)

(* urlTokens[i] with a zero-based index i *)
ArrayAt(arr, i) == IF (i + 1) \in DOMAIN arr THEN arr[i + 1] ELSE Undefined

(***************************************************************************)
(* State                                                                   *)
(***************************************************************************)
VARIABLES
    mainzellisteApiVersion, \* constructor argument of PseudonymHandler
    useCallback,            \* backend configuration: token redemption is callback-mediated
    patients,               \* the caller's Map<patientKey, Patient>
    pc,                     \* position of the running invocation
    hp,                     \* frame of sendPatients/requestPatients + handlePseudonymization
    cp,                     \* frame of createPseudonyms
    rc,                     \* frame of resolveConflicts
    gp,                     \* frame of getPseudonym
    inflight,               \* the fetch the driver is awaiting
    response,               \* the answer to it, once it arrived
    result,                 \* how the last invocation settled
    nextToken,              \* record-linkage service: next token id to issue
    calls,                  \* number of invocations started
    edits,                  \* number of caller edits made
    faults,                 \* number of adverse answers the services have given
    store,                  \* backend: the stored mdat by pseudonym
    redeemed,               \* history: <<token URL, key>> of every identity submission
    tokenInvalidAtCall,     \* history: keys that were TOKEN_INVALID when the invocation began
    accepting,              \* history: the service issued tokens and accepted every tokened submission
    atCall,                 \* history: the caller's map as it was when the invocation began
    lastEdit,               \* history: the caller's last operation on a record since the last invocation
    track,                  \* history: per record, submitted / answered since created or reset
    dp,                     \* frame of depseudonymize + handleDepseudonymization
    registry,               \* record-linkage service: the identity fields held by pseudonym
    exchanges,              \* history: the fetches of the running depseudonymize and their answers
    replaced,               \* history: the caller's map before it was replaced by new records
    issued,                 \* history: the fetches the running invocation has issued, in order
    thrown                  \* history: an operation on the records has thrown

vars == <<mainzellisteApiVersion, useCallback, patients, pc, hp, cp, rc, gp, inflight, response,
          result, nextToken, calls, edits, faults, store, redeemed, tokenInvalidAtCall, accepting,
          atCall, lastEdit, track, dp, registry, exchanges, replaced, issued,
          thrown>>

depseudonymization == <<dp, exchanges>>
frames == <<hp, cp, rc, gp>>
history == <<redeemed, tokenInvalidAtCall, accepting, atCall, lastEdit, track, issued>>
config == <<mainzellisteApiVersion, useCallback>>
services == <<nextToken, faults, store, registry>>

NoFetch == [kind |-> "none"]
NoResponse == [kind |-> "none"]

NoHp == [op |-> "none", keys |-> <<>>, includeSucceeded |-> FALSE,
         created |-> <<>>, conflicts |-> <<>>, pseudonymized |-> <<>>]
NoCp == [keys |-> <<>>, i |-> 0, useCallback |-> JSUndefined, urlTokens |-> <<>>,
         pseudonymized |-> <<>>, conflicts |-> <<>>, caller |-> "none"]
NoRc == [keys |-> <<>>, i |-> 0, pseudonymized |-> <<>>, conflicts |-> <<>>,
         invalidTokens |-> <<>>]
NoGp == [key |-> UndefinedKey, requestURL |-> Null, caller |-> "none",
         response |-> NoResponse, returned |-> "none"]

(* no invocation is running; the caller has not touched a record *)
NoSnapshot == <<>>
NoEdit == [op |-> "none"]

(* a fetch the invocation issued: its kind, the record it submits, and the  *)
(* pass of handlePseudonymization that issued it                           *)
Fetch(kind, key, pass) == [kind |-> kind, key |-> key, pass |-> pass]

(* createPseudonyms runs for handlePseudonymization or for resolveConflicts *)
PassOf(caller) == IF caller = "handle" THEN "create" ELSE "resolve-create"

(* no depseudonymize is running *)
NoDp == [pseudonyms |-> <<>>, invalid |-> <<>>, depseudonymized |-> <<>>]

(* The key list a caller passes: the default, Array.from(patients.keys()). *)
RECURSIVE SetToSeq(_)
SetToSeq(S) ==
    IF S = {} THEN <<>>
    ELSE LET m == CHOOSE x \in S : \A y \in S : x <= y
         IN <<m>> \o SetToSeq(S \ {m})

KeyLists == { SetToSeq(Keys) }

Range(seq) == { seq[i] : i \in DOMAIN seq }

Init ==
    /\ mainzellisteApiVersion \in ApiVersions
    /\ useCallback \in {JSTrue, JSFalse}
    /\ patients \in [Keys -> { createPatient(f, l, b, "") :
                                 <<f, l, b>> \in
                                   { t \in FirstNames \X LastNames \X Birthdays :
                                       createIDATValid(t[1], t[2], t[3]) } }]
    /\ pc = "idle"
    /\ hp = NoHp
    /\ cp = NoCp
    /\ rc = NoRc
    /\ gp = NoGp
    /\ inflight = NoFetch
    /\ response = NoResponse
    /\ result = "none"
    /\ nextToken = 1
    /\ calls = 0
    /\ edits = 0
    /\ faults = 0
    /\ store = <<>>
    /\ redeemed = {}
    /\ tokenInvalidAtCall = {}
    /\ accepting = TRUE
    /\ atCall = NoSnapshot
    /\ lastEdit = NoEdit
    /\ track = [k \in Keys |-> [submitted |-> FALSE, answered |-> FALSE]]
    /\ dp = NoDp
    /\ registry = <<>>
    /\ exchanges = <<>>
    /\ replaced = NoSnapshot
    /\ issued = <<>>
    /\ thrown = FALSE

(***************************************************************************)
(* Caller operations on a record (only between invocations: the record set *)
(* is owned by the running invocation).                                    *)
(***************************************************************************)
IdatEqual(a, b) ==
    /\ a.firstname = b.firstname
    /\ a.lastname = b.lastname
    /\ GetTime(a.birthday) = GetTime(b.birthday)

(* an update that resets a record only once it has been sent or requested *)
updateIDATSyncedOnly(patient, firstname, lastname, birthday) ==
    LET idat == createIDAT(firstname, lastname, birthday)
        reset == patient.status > 1 /\ ~IdatEqual(patient.idat, idat)
    IN [patient EXCEPT !.pseudonym = IF reset THEN Null ELSE @,
                       !.status = IF reset THEN CREATED ELSE @,
                       !.idat = idat]

updateIDAT(patient, firstname, lastname, birthday) ==
    LET idat == createIDAT(firstname, lastname, birthday)
        reset == patient.status > 0 /\ ~IdatEqual(patient.idat, idat)
    IN [patient EXCEPT !.pseudonym = IF reset THEN Null ELSE @,
                       !.status = IF reset THEN CREATED ELSE @,
                       !.idat = idat]

(* the update as its documentation has it: a sent or requested record becomes PSEUDONYMIZED *)
updateMDATAsDocumented(patient, mdat) ==
    IF patient.mdat # mdat
    THEN [patient EXCEPT !.mdat = mdat,
                         !.status = IF patient.status > 1 THEN PSEUDONYMIZED ELSE @]
    ELSE patient

updateMDAT(patient, mdat) ==
    IF patient.mdat # mdat
    THEN [patient EXCEPT
            !.mdat = mdat,
            !.status = IF patient.status > 1
                       THEN (IF patient.status # PSEUDONYMIZED /\ patient.tokenUseCallback = JSTrue
                             THEN CREATED ELSE PSEUDONYMIZED)
                       ELSE @]
    ELSE patient

UpdateIDAT ==
    /\ pc = "idle"
    /\ edits < MaxEdits
    /\ \E key \in Keys, f \in FirstNames, l \in LastNames, b \in Birthdays :
         /\ createIDATValid(f, l, b)
         /\ patients' = [patients EXCEPT ![key] = updateIDAT(@, f, l, b)]
         /\ lastEdit' = [op |-> "updateIDAT", key |-> key, firstname |-> f, lastname |-> l,
                         birthday |-> b, threw |-> FALSE]
         /\ track' = IF /\ patients[key].status \in {PSEUDONYMIZED} \cup PostSyncStatuses
                        /\ patients'[key].idat # patients[key].idat
                     THEN [track EXCEPT ![key] = [submitted |-> FALSE, answered |-> FALSE]]
                     ELSE track
    /\ edits' = edits + 1
    /\ UNCHANGED <<config, thrown, issued, replaced, depseudonymization, pc, frames, inflight, response, result,
                   services, calls, redeemed, tokenInvalidAtCall, accepting, atCall>>

UpdateIDATThrows ==
    /\ pc = "idle"
    /\ edits < MaxEdits
    /\ \E key \in Keys, f \in FirstNames, l \in LastNames, b \in Birthdays :
         /\ ~createIDATValid(f, l, b)
         /\ lastEdit' = [op |-> "updateIDAT", key |-> key, firstname |-> f, lastname |-> l,
                         birthday |-> b, threw |-> TRUE]
    /\ thrown' = TRUE
    /\ edits' = edits + 1
    /\ UNCHANGED <<config, issued, replaced, depseudonymization, patients, pc, frames, inflight,
                   response, result,
                   services, calls, redeemed, tokenInvalidAtCall, accepting, atCall, track>>

UpdateMDAT ==
    /\ pc = "idle"
    /\ edits < MaxEdits
    /\ \E key \in Keys, m \in Mdats :
         /\ patients' = [patients EXCEPT ![key] = updateMDAT(@, m)]
         /\ lastEdit' = [op |-> "updateMDAT", key |-> key, mdat |-> m]
         /\ track' = IF /\ patients[key].mdat # m
                        /\ patients[key].status \in PostSyncStatuses
                        /\ patients[key].tokenUseCallback = JSTrue
                     THEN [track EXCEPT ![key].answered = FALSE]
                     ELSE track
    /\ edits' = edits + 1
    /\ UNCHANGED <<config, thrown, issued, replaced, depseudonymization, pc, frames, inflight, response, result,
                   services, calls, redeemed, tokenInvalidAtCall, accepting, atCall>>

SetSureness ==
    /\ pc = "idle"
    /\ edits < MaxEdits
    /\ \E key \in Keys, b \in BOOLEAN :
         /\ patients' = [patients EXCEPT ![key].sureness = b]
         /\ lastEdit' = [op |-> "sureness", key |-> key]
    /\ edits' = edits + 1
    /\ UNCHANGED <<config, thrown, issued, replaced, depseudonymization, pc, frames, inflight, response, result,
                   services, calls, redeemed, tokenInvalidAtCall, accepting, atCall, track>>

(***************************************************************************)
(* handlePseudonymization, the partition loop.                             *)
(***************************************************************************)
(* a partition that never re-enters a synced record *)
ToCreateNoRetry(pats, includeSucceeded, key) == pats[key].status = CREATED

ToCreate(pats, includeSucceeded, key) ==
    \/ pats[key].status = CREATED
    \/ /\ pats[key].status \in PostSyncStatuses
       /\ includeSucceeded
       /\ pats[key].tokenUseCallback = JSTrue

(* a partition that hands the records to create to the resolve pass too *)
ToResolveAlsoCreated(pats, key) ==
    pats[key].status \in {IDAT_CONFLICT, TOKEN_INVALID, IDAT_INVALID, CREATED}

ToResolve(pats, key) == pats[key].status \in {IDAT_CONFLICT, TOKEN_INVALID, IDAT_INVALID}

(* a partition that passes every record on that is not CREATED *)
PassedThroughAll(pats, includeSucceeded, key) == pats[key].status # CREATED

(* a partition that passes synced records on whatever the flag says *)
PassedThroughRetry(pats, includeSucceeded, key) ==
    \/ pats[key].status = PSEUDONYMIZED
    \/ /\ pats[key].status \in PostSyncStatuses
       /\ pats[key].tokenUseCallback # JSTrue

PassedThrough(pats, includeSucceeded, key) ==
    \/ pats[key].status = PSEUDONYMIZED
    \/ /\ pats[key].status \in PostSyncStatuses
       /\ includeSucceeded
       /\ pats[key].tokenUseCallback # JSTrue

handlePseudonymization(op, patientKeys, includeSucceeded) ==
    [op |-> op, keys |-> patientKeys, includeSucceeded |-> includeSucceeded,
     created |-> SelectSeq(patientKeys, LAMBDA k : ToCreate(patients, includeSucceeded, k)),
     conflicts |-> SelectSeq(patientKeys, LAMBDA k : ToResolve(patients, k)),
     pseudonymized |-> SelectSeq(patientKeys, LAMBDA k : PassedThrough(patients, includeSucceeded, k))]

(* retrySucceeded is read for records in a post-sync status only *)
RetryChoices(patientKeys) ==
    IF \E k \in Range(patientKeys) : patients[k].status \in PostSyncStatuses
    THEN BOOLEAN ELSE {FALSE}

Invoke(op) ==
    /\ pc = "idle"
    /\ calls < MaxCalls
    /\ \E patientKeys \in KeyLists :
       \E retrySucceeded \in RetryChoices(patientKeys) :
         /\ hp' = handlePseudonymization(op, patientKeys, retrySucceeded)
         /\ cp' = [NoCp EXCEPT !.keys = hp'.created, !.caller = "handle"]
         /\ tokenInvalidAtCall' =
              { k \in Range(patientKeys) : patients[k].status = TOKEN_INVALID }
    /\ pc' = "createPseudonyms"
    /\ calls' = calls + 1
    /\ accepting' = TRUE
    /\ result' = "pending"
    /\ atCall' = patients
    /\ lastEdit' = NoEdit
    /\ issued' = <<>>
    /\ UNCHANGED <<config, thrown, replaced, depseudonymization, patients, rc, gp, inflight, response,
                   services, edits, redeemed, track>>

SendPatients == Invoke("send")

RequestPatients == Invoke("request")

(***************************************************************************)
(* The settled promise: an exception ends the invocation.                  *)
(***************************************************************************)
(* an exception that is swallowed: the invocation settles as if it had returned *)
ThrowSwallowed ==
    /\ pc' = "settled"
    /\ result' = "returned"
    /\ thrown' = thrown

Throw ==
    /\ pc' = "settled"
    /\ result' = "threw"
    /\ thrown' = TRUE

(***************************************************************************)
(* getPseudonym up to its fetch: the request it issues for a patient.      *)
(***************************************************************************)
SubmitRequest(patient) ==
    [kind |-> "submit",
     url |-> patient.tokenURL,
     body |-> RequestBody(patient),
     apiVersion |-> mainzellisteApiVersion]

(***************************************************************************)
(* createPseudonyms                                                        *)
(***************************************************************************)
(* a createPseudonyms that asks for tokens whatever the number of records *)
TokensAlways(patientKeys) == TRUE

(* if (patientKeys.length !== 0) *)
TokensNeeded(patientKeys) == Len(patientKeys) # 0

CreateEnter ==
    /\ pc = "createPseudonyms"
    /\ IF TokensNeeded(cp.keys)
       THEN /\ inflight' = [kind |-> "token", amount |-> Len(cp.keys)]
            /\ issued' = Append(issued, Fetch("token", UndefinedKey, PassOf(cp.caller)))
            /\ pc' = "await_token"
       ELSE /\ pc' = "create_return"
            /\ UNCHANGED <<inflight, issued>>
    /\ UNCHANGED <<config, thrown, replaced, depseudonymization, patients, frames, response, result,
                   services, calls, edits, redeemed, tokenInvalidAtCall, accepting, atCall, lastEdit, track>>

(* getPseudonymizationURL after its fetch *)
TokenResume ==
    /\ pc = "await_token"
    /\ response.kind # "none"
    /\ IF response.kind = "http" /\ response.ok
       THEN /\ cp' = [cp EXCEPT !.useCallback = response.json.useCallback,
                                !.urlTokens = response.json.urlTokens,
                                !.i = 0]
            /\ pc' = "create_loop"
            /\ UNCHANGED <<result, thrown>>
       ELSE /\ Throw
            /\ UNCHANGED cp
    /\ inflight' = NoFetch
    /\ response' = NoResponse
    /\ UNCHANGED <<config, replaced, depseudonymization, patients, hp, rc, gp,
                   services, calls, edits, history>>

(* a loop that stays at the record it has just handled *)
Stay(i) == i

(* the loop of resolveConflicts goes on to the next record *)
Advance(i) == i + 1

(* a loop that hands the first token to every record *)
CreateTokenFirst(urlTokens, i) == ArrayAt(urlTokens, 0)

(* the token the loop of createPseudonyms hands to the record at index i *)
CreateTokenFor(urlTokens, i) == ArrayAt(urlTokens, i)

CreateLoop ==
    /\ pc = "create_loop"
    /\ IF cp.i < Len(cp.keys)
       THEN LET key == cp.keys[cp.i + 1]
                patient == [patients[key] EXCEPT
                              !.tokenUseCallback = cp.useCallback,
                              !.tokenURL = CreateTokenFor(cp.urlTokens, cp.i)]
            IN /\ patients' = [patients EXCEPT ![key] = patient]
               /\ gp' = [key |-> key, requestURL |-> patient.tokenURL, caller |-> "create",
                         response |-> NoResponse, returned |-> "none"]
               /\ inflight' = SubmitRequest(patient)
               /\ redeemed' = redeemed \cup {<<patient.tokenURL, key>>}
               /\ track' = [track EXCEPT ![key].submitted = TRUE]
               /\ issued' = Append(issued, Fetch("submit", key, PassOf(cp.caller)))
               /\ pc' = "await_submit"
       ELSE /\ pc' = "create_return"
            /\ UNCHANGED <<patients, gp, inflight, redeemed, track, issued>>
    /\ UNCHANGED <<config, thrown, replaced, depseudonymization, hp, cp, rc, response, result,
                   services, calls, edits, tokenInvalidAtCall, accepting, atCall, lastEdit>>

(* return { pseudonymized, conflicts } to the caller of createPseudonyms *)
CreateReturn ==
    /\ pc = "create_return"
    /\ LET ret == [pseudonymized |-> cp.pseudonymized, conflicts |-> cp.conflicts]
       IN IF cp.caller = "handle"
          THEN /\ hp' = [hp EXCEPT !.pseudonymized = Concat(@, Prop(ret, "pseudonymized"))]
               /\ rc' = [NoRc EXCEPT !.keys = hp.conflicts]
               /\ pc' = "resolve_loop"
          ELSE /\ rc' = [rc EXCEPT
                           !.pseudonymized = Concat(@, Prop(ret, "createdPseudonymized")),
                           !.conflicts = Concat(@, Prop(ret, "createdConflicts"))]
               /\ pc' = "resolve_return"
               /\ UNCHANGED hp
    /\ UNCHANGED <<config, thrown, replaced, depseudonymization, patients, cp, gp, inflight, response,
                   result,
                   services, calls, edits, history>>

(***************************************************************************)
(* resolveConflicts                                                        *)
(***************************************************************************)
(* the routing test reading the status property *)
RoutedByStatus(patient) == patient.status = TOKEN_INVALID

(* a routing test that re-tokenizes IDAT_INVALID records too *)
RoutedInvalid(patient) == patient.status \in {TOKEN_INVALID, IDAT_INVALID}

RoutedToInvalidTokens(patient) ==
    LET statusCode == Prop(patient, "statusCode")
    IN statusCode.defined /\ statusCode.value = TOKEN_INVALID

ResolveLoop ==
    /\ pc = "resolve_loop"
    /\ IF rc.i < Len(rc.keys)
       THEN LET key == rc.keys[rc.i + 1]
                patient == patients[key]
            IN IF RoutedToInvalidTokens(patient)
               THEN /\ rc' = [rc EXCEPT !.invalidTokens = Append(@, key), !.i = Advance(@)]
                    /\ UNCHANGED <<pc, cp, gp, inflight, redeemed, track, issued>>
               ELSE /\ gp' = [key |-> key, requestURL |-> patient.tokenURL, caller |-> "resolve",
                              response |-> NoResponse, returned |-> "none"]
                    /\ inflight' = SubmitRequest(patient)
                    /\ redeemed' = redeemed \cup {<<patient.tokenURL, key>>}
                    /\ track' = [track EXCEPT ![key].submitted = TRUE]
                    /\ issued' = Append(issued, Fetch("submit", key, "resolve"))
                    /\ pc' = "await_submit"
                    /\ UNCHANGED <<rc, cp>>
       ELSE IF Len(rc.invalidTokens) # 0
            THEN /\ cp' = [NoCp EXCEPT !.keys = rc.invalidTokens, !.caller = "resolve"]
                 /\ pc' = "createPseudonyms"
                 /\ UNCHANGED <<rc, gp, inflight, redeemed, track, issued>>
            ELSE /\ pc' = "resolve_return"
                 /\ UNCHANGED <<rc, cp, gp, inflight, redeemed, track, issued>>
    /\ UNCHANGED <<config, thrown, replaced, depseudonymization, patients, hp, response, result,
                   services, calls, edits, tokenInvalidAtCall, accepting, atCall, lastEdit>>

(* return { pseudonymized, conflicts } to handlePseudonymization *)
ResolveReturn ==
    /\ pc = "resolve_return"
    /\ LET ret == [pseudonymized |-> rc.pseudonymized, conflicts |-> rc.conflicts]
       IN hp' = [hp EXCEPT !.pseudonymized = Concat(@, Prop(ret, "pseudonymized"))]
    /\ pc' = "mdat"
    /\ UNCHANGED <<config, thrown, replaced, depseudonymization, patients, cp, rc, gp, inflight,
                   response, result,
                   services, calls, edits, history>>

(***************************************************************************)
(* getPseudonym after its fetch.                                           *)
(***************************************************************************)
Case201(patient, requestURL, body, version) ==
    LET cb == patient.tokenUseCallback = JSTrue
        throwsAtPseudonym ==
            \/ cb /\ requestURL = Null
            \/ ~cb /\ version # "1.0" /\ body.shape # "array"
        pseudonym ==
            IF cb THEN SplitEq1(requestURL)
            ELSE IF version = "1.0"
                 THEN (IF body.shape = "object" THEN body.newId ELSE Undefined)
                 ELSE body.idString
        p1 == [patient EXCEPT !.pseudonym = pseudonym, !.status = PSEUDONYMIZED]
        throwsAtTentative == body.shape # "array"
    IN IF throwsAtPseudonym THEN [patient |-> patient, threw |-> TRUE]
       ELSE IF throwsAtTentative THEN [patient |-> p1, threw |-> TRUE]
       ELSE [patient |-> [p1 EXCEPT !.tentative = body.tentative, !.tokenURL = Null],
             threw |-> FALSE]

(* a 400 branch that drops the pseudonym the record holds *)
Case400DropsPseudonym(patient, requestURL) ==
    [patient |-> [patient EXCEPT !.status = IDAT_INVALID, !.tokenURL = requestURL,
                                 !.pseudonym = Null],
     threw |-> FALSE]

Case400(patient, requestURL) ==
    [patient |-> [patient EXCEPT !.status = IDAT_INVALID, !.tokenURL = requestURL],
     threw |-> FALSE]

(* a 401 branch that leaves the refused token on the record *)
Case401KeepsToken(patient) ==
    [patient |-> [patient EXCEPT !.status = TOKEN_INVALID], threw |-> FALSE]

(* a 401 branch that throws instead of recording the outcome *)
Case401Throws(patient) ==
    [patient |-> [patient EXCEPT !.status = TOKEN_INVALID, !.tokenURL = Null,
                                 !.tokenUseCallback = JSNull],
     threw |-> TRUE]

Case401(patient) ==
    [patient |-> [patient EXCEPT !.status = TOKEN_INVALID, !.tokenURL = Null,
                                 !.tokenUseCallback = JSNull],
     threw |-> FALSE]

(* the 409 branch with the status of the 400 branch *)
Case409AsInvalid(patient, requestURL) ==
    [patient |-> [patient EXCEPT !.status = IDAT_INVALID, !.tokenURL = requestURL],
     threw |-> FALSE]

Case409(patient, requestURL) ==
    [patient |-> [patient EXCEPT !.status = IDAT_CONFLICT, !.tokenURL = requestURL],
     threw |-> FALSE]

(* a default branch that records the answer as a failure of the record *)
CaseDefaultAsConflict(patient) ==
    [patient |-> [patient EXCEPT !.status = IDAT_CONFLICT], threw |-> FALSE]

(* a default branch that takes the answer for a success *)
CaseDefaultAsSuccess(patient) ==
    [patient |-> [patient EXCEPT !.status = PSEUDONYMIZED, !.tokenURL = Null],
     threw |-> FALSE]

CaseDefault(patient) == [patient |-> patient, threw |-> TRUE]

getPseudonym(patient, requestURL, resp, version) ==
    IF resp.kind # "http" THEN [patient |-> patient, threw |-> TRUE]
    ELSE CASE resp.status = 201 -> Case201(patient, requestURL, resp.json, version)
           [] resp.status = 400 -> Case400(patient, requestURL)
           [] resp.status = 401 -> Case401(patient)
           [] resp.status = 409 -> Case409(patient, requestURL)
           [] OTHER -> CaseDefault(patient)

SubmitResume ==
    /\ pc = "await_submit"
    /\ response.kind # "none"
    /\ LET out == getPseudonym(patients[gp.key], gp.requestURL, response, mainzellisteApiVersion)
           success == out.patient.status = PSEUDONYMIZED
       IN /\ patients' = [patients EXCEPT ![gp.key] = out.patient]
          /\ IF out.threw
             THEN /\ Throw
                  /\ gp' = [gp EXCEPT !.response = response, !.returned = "threw"]
                  /\ UNCHANGED <<cp, rc>>
             ELSE /\ gp' = [gp EXCEPT !.response = response,
                                      !.returned = IF success THEN "true" ELSE "false"]
                  /\ UNCHANGED <<result, thrown>>
                  /\ IF gp.caller = "create"
                     THEN /\ cp' = [cp EXCEPT
                                      !.pseudonymized = IF success THEN Append(@, gp.key) ELSE @,
                                      !.conflicts = IF success THEN @ ELSE Append(@, gp.key),
                                      !.i = @ + 1]
                          /\ pc' = "create_loop"
                          /\ UNCHANGED rc
                     ELSE /\ rc' = [rc EXCEPT
                                      !.pseudonymized = IF success THEN Append(@, gp.key) ELSE @,
                                      !.conflicts = IF success THEN @ ELSE Append(@, gp.key),
                                      !.i = Advance(@)]
                          /\ pc' = "resolve_loop"
                          /\ UNCHANGED cp
    /\ track' = IF response.kind = "http" /\ response.status \in {201, 400, 401, 409}
                 THEN [track EXCEPT ![gp.key].answered = TRUE]
                 ELSE track
    /\ inflight' = NoFetch
    /\ response' = NoResponse
    /\ UNCHANGED <<config, issued, replaced, depseudonymization, hp, services, calls, edits,
                   redeemed, tokenInvalidAtCall, accepting, atCall, lastEdit>>

(***************************************************************************)
(* send and request: the medical-data exchange with the backend.           *)
(***************************************************************************)
SendData(patientKeys) ==
    [i \in DOMAIN patientKeys |->
       [pseudonym |-> patients[patientKeys[i]].pseudonym,
        mdat |-> patients[patientKeys[i]].mdat,
        tentative |-> patients[patientKeys[i]].tentative]]

RequestData(patientKeys) ==
    [i \in DOMAIN patientKeys |-> patients[patientKeys[i]].pseudonym]

MdatEnter ==
    /\ pc = "mdat"
    /\ IF Len(hp.pseudonymized) = 0
       THEN /\ pc' = "settled"
            /\ result' = "returned"
            /\ UNCHANGED <<inflight, issued, thrown>>
       ELSE IF UndefinedKey \in Range(hp.pseudonymized)
            THEN /\ Throw
                 /\ UNCHANGED <<inflight, issued>>
            ELSE /\ issued' = Append(issued, Fetch(hp.op, UndefinedKey, "exchange"))
                 /\ inflight' = [kind |-> hp.op,
                                 data |-> IF hp.op = "send"
                                          THEN SendData(hp.pseudonymized)
                                          ELSE RequestData(hp.pseudonymized)]
                 /\ pc' = "await_mdat"
                 /\ UNCHANGED <<result, thrown>>
    /\ UNCHANGED <<config, replaced, depseudonymization, patients, frames, response,
                   services, calls, edits, redeemed, tokenInvalidAtCall, accepting, atCall, lastEdit, track>>

(* a status loop that does not read successArray *)
sendAllProcessed(pats, patientKeys, successArray) ==
    [k \in Keys |->
       IF k \in Range(patientKeys) THEN [pats[k] EXCEPT !.status = PROCESSED] ELSE pats[k]]

(* a status loop over every record of the map *)
sendEveryRecord(pats, patientKeys, successArray) ==
    [k \in Keys |->
       [pats[k] EXCEPT !.status = IF pats[k].pseudonym \in successArray
                                  THEN PROCESSED ELSE NOT_PROCESSED]]

(* send after its fetch: successArray is the set of pseudonyms mapped to true *)
send(pats, patientKeys, successArray) ==
    [k \in Keys |->
       IF k \in Range(patientKeys)
       THEN [pats[k] EXCEPT !.status = IF pats[k].pseudonym \in successArray
                                       THEN PROCESSED ELSE NOT_PROCESSED]
       ELSE pats[k]]

(* request after its fetch: receivedPatients maps each pseudonym it holds to its mdat *)
request(pats, patientKeys, receivedPatients) ==
    [k \in Keys |->
       IF k \in Range(patientKeys)
       THEN IF pats[k].pseudonym \in DOMAIN receivedPatients
            THEN [pats[k] EXCEPT !.mdat = receivedPatients[pats[k].pseudonym],
                                 !.status = FOUND]
            ELSE [pats[k] EXCEPT !.status = NOT_FOUND]
       ELSE pats[k]]

MdatResume ==
    /\ pc = "await_mdat"
    /\ response.kind # "none"
    /\ IF response.kind = "http" /\ response.ok
       THEN /\ patients' = IF hp.op = "send"
                           THEN send(patients, hp.pseudonymized, response.json)
                           ELSE request(patients, hp.pseudonymized, response.json)
            /\ pc' = "settled"
            /\ result' = "returned"
            /\ UNCHANGED thrown
       ELSE /\ Throw
            /\ UNCHANGED patients
    /\ inflight' = NoFetch
    /\ response' = NoResponse
    /\ UNCHANGED <<config, replaced, depseudonymization, frames, services, calls, edits, history>>

(* the caller observes the settled promise of sendPatients/requestPatients *)
Settle ==
    /\ pc = "settled"
    /\ pc' = "idle"
    /\ hp' = NoHp
    /\ cp' = NoCp
    /\ rc' = NoRc
    /\ gp' = NoGp
    /\ tokenInvalidAtCall' = {}
    /\ accepting' = TRUE
    /\ atCall' = NoSnapshot
    /\ issued' = <<>>
    /\ result' = "none"
    /\ UNCHANGED <<config, thrown, replaced, depseudonymization, patients, inflight, response,
                   services, calls, edits, redeemed, lastEdit, track>>

(***************************************************************************)
(* depseudonymize and handleDepseudonymization                             *)
(***************************************************************************)
MaxList == 2

(* a pseudonym the record-linkage service has never issued *)
UnknownPseudonym == <<"pid">>

(* the pseudonyms a caller can hold: those of its records, and a stale one *)
KnownPseudonyms ==
    { patients[k].pseudonym : k \in { j \in Keys : patients[j].pseudonym # Null } }
        \cup {UnknownPseudonym}

(* the argument of depseudonymize: a pseudonym or an array of pseudonyms *)
DepInputs(isArray) ==
    IF isArray
    THEN UNION { [1..n -> KnownPseudonyms] : n \in 0..MaxList }
    ELSE KnownPseudonyms

(* if (!Array.isArray(pseudonyms)) pseudonyms = [pseudonyms] *)
ToArray(isArray, input) == IF isArray THEN input ELSE <<input>>

(* getDepseudonymizationURL up to its fetch: JSON.stringify(pseudonyms) *)
ReadTokenRequest(pseudonyms) ==
    [kind |-> "readToken", pseudonyms |-> pseudonyms]

(* the settled promise of depseudonymize *)
DepThrow ==
    /\ pc' = "dep_settled"
    /\ result' = "threw"

DepReturn(depseudonymized, invalid) ==
    /\ pc' = "dep_settled"
    /\ result' = "returned"
    /\ dp' = [dp EXCEPT !.depseudonymized = depseudonymized, !.invalid = invalid]

Depseudonymize ==
    /\ pc = "idle"
    /\ calls < MaxCalls
    /\ \E isArray \in BOOLEAN :
       \E input \in DepInputs(isArray) :
         LET pseudonyms == ToArray(isArray, input)
         IN IF Len(pseudonyms) = 0
            THEN /\ pc' = "dep_settled"
                 /\ result' = "returned"
                 /\ dp' = [NoDp EXCEPT !.pseudonyms = pseudonyms]
                 /\ UNCHANGED inflight
            ELSE /\ pc' = "await_read_token"
                 /\ result' = "pending"
                 /\ dp' = [NoDp EXCEPT !.pseudonyms = pseudonyms]
                 /\ inflight' = ReadTokenRequest(pseudonyms)
    /\ calls' = calls + 1
    /\ exchanges' = <<>>
    /\ UNCHANGED <<config, thrown, replaced, patients, frames, response, services, edits, history>>

(* a url test that never finds the url empty *)
UrlNeverEmpty(url) == FALSE

(* if (url === "") *)
UrlIsEmpty(url) == url = ""

(* getDepseudonymizationURL after its fetch, and the url test of its caller *)
ReadTokenResume ==
    /\ pc = "await_read_token"
    /\ response.kind # "none"
    /\ IF response.kind = "http" /\ response.ok
       THEN IF UrlIsEmpty(response.json.url)
            THEN /\ DepReturn(<<>>, response.json.invalidPseudonyms)
                 /\ inflight' = NoFetch
            ELSE /\ pc' = "await_patient_data"
                 /\ inflight' = [kind |-> "patientData", url |-> response.json.url,
                                 apiVersion |-> mainzellisteApiVersion]
                 /\ dp' = [dp EXCEPT !.invalid = response.json.invalidPseudonyms]
                 /\ UNCHANGED result
       ELSE /\ DepThrow
            /\ inflight' = NoFetch
            /\ UNCHANGED dp
    /\ exchanges' = Append(exchanges, [request |-> inflight, response |-> response])
    /\ response' = NoResponse
    /\ UNCHANGED <<config, thrown, replaced, patients, frames, services, calls, edits, history>>

(* new Date(year + "-" + month + "-" + day): the midnight of that day *)
Digits(d) == d[1] * 10 + d[2]

ParseDate(year, month, day) ==
    IF Digits(month) \in 1..12 /\ Digits(day) \in 1..31
    THEN [year |-> year, month |-> Digits(month), day |-> Digits(day), time |-> 0]
    ELSE NaNDate

(* one pass of the loop over responseArray *)
DepEntry(entry) ==
    LET birthday == ParseDate(entry.fields.geburtsjahr, entry.fields.geburtsmonat,
                              entry.fields.geburtstag)
    IN [threw |-> ~createIDATValid(entry.fields.vorname, entry.fields.nachname, birthday),
        pseudonym |-> entry.idString,
        value |-> [idat |-> createIDAT(entry.fields.vorname, entry.fields.nachname, birthday),
                   tentative |-> entry.tentative]]

(* a list that keeps every entry of the array *)
DepMapKeepAll(responseArray) ==
    [i \in DOMAIN responseArray |-> DepEntry(responseArray[i]).value]

(* depseudonymized after the loop: Map.set keeps the last entry of a pseudonym *)
DepMap(responseArray) ==
    [p \in { responseArray[i].idString : i \in DOMAIN responseArray } |->
       DepEntry(responseArray[
           CHOOSE i \in DOMAIN responseArray :
             /\ responseArray[i].idString = p
             /\ \A j \in DOMAIN responseArray : responseArray[j].idString = p => j <= i]).value]

(* the invalid list handleDepseudonymization returns *)
DepInvalidWithAbsent(invalidPseudonyms, pseudonyms, depseudonymized) ==
    invalidPseudonyms \o
      SelectSeq(pseudonyms, LAMBDA p : p \notin DOMAIN depseudonymized
                                        /\ p \notin Range(invalidPseudonyms))

DepInvalid(invalidPseudonyms, pseudonyms, depseudonymized) == invalidPseudonyms

(* getPatientData after its fetch, and the loop of its caller *)
PatientDataResume ==
    /\ pc = "await_patient_data"
    /\ response.kind # "none"
    /\ IF response.kind = "http" /\ response.ok
       THEN IF \E i \in DOMAIN response.json : DepEntry(response.json[i]).threw
            THEN /\ DepThrow
                 /\ UNCHANGED dp
            ELSE DepReturn(DepMap(response.json),
                           DepInvalid(dp.invalid, dp.pseudonyms, DepMap(response.json)))
       ELSE /\ DepThrow
            /\ UNCHANGED dp
    /\ exchanges' = Append(exchanges, [request |-> inflight, response |-> response])
    /\ inflight' = NoFetch
    /\ response' = NoResponse
    /\ UNCHANGED <<config, thrown, replaced, patients, frames, services, calls, edits, history>>

(* the caller observes the settled promise of depseudonymize *)
DepSettle ==
    /\ pc = "dep_settled"
    /\ pc' = "idle"
    /\ dp' = NoDp
    /\ exchanges' = <<>>
    /\ result' = "none"
    /\ UNCHANGED <<config, thrown, replaced, patients, frames, inflight, response, services,
                   calls, edits, history>>

(***************************************************************************)
(* The environment: what answers each fetch.                               *)
(***************************************************************************)
ResponseStatuses == {201, 400, 401, 409, 500}
DefinedStatuses == {201, 400, 401, 409}

(* the patient id the record-linkage service assigns to a submitted identity *)
PidOf(body) ==
    <<"pid", body.vorname, body.nachname, body.geburtsjahr, body.geburtsmonat, body.geburtstag>>

(* What the service reads from the form body.  getPseudonym concatenates   *)
(* the names into the body as they are: "&" ends a value and "+" stands    *)
(* for a blank.                                                            *)
RECURSIVE FormValue(_)
FormValue(s) ==
    IF s = <<>> \/ Head(s) = "&" THEN <<>>
    ELSE <<IF Head(s) = "+" THEN " " ELSE Head(s)>> \o FormValue(Tail(s))

FormFields(body) ==
    [vorname |-> FormValue(body.vorname),
     nachname |-> FormValue(body.nachname),
     geburtstag |-> body.geburtstag,
     geburtsmonat |-> body.geburtsmonat,
     geburtsjahr |-> body.geburtsjahr]

(* The pseudonym under which the backend knows a registered patient: the   *)
(* token id when redemption is callback-mediated, the patient id otherwise *)
PseudonymOf(url, fields) ==
    IF useCallback = JSTrue THEN SplitEq1(url) ELSE PidOf(fields)

(* the patient list after a 201 *)
Register(reg, url, fields, tentative) ==
    LET pseudonym == PseudonymOf(url, fields)
    IN [p \in DOMAIN reg \cup {pseudonym} |->
          IF p = pseudonym THEN [fields |-> fields, tentative |-> tentative] ELSE reg[p]]

(* token issuance: `amount` fresh token URLs in one answer *)
IssueTokens(amount, first) == [i \in 1..amount |-> TokenURL(first + i - 1)]

(* the body of a 201 answer: an object up to API version 1.0, an array of ids after *)
ServiceBody(apiVersion, pid, tentative) ==
    IF apiVersion = "1.0"
    THEN [shape |-> "object", newId |-> pid, tentative |-> tentative]
    ELSE [shape |-> "array", idString |-> pid, tentative |-> tentative]

(* the services give at most MaxFaults adverse answers *)
MayFail == faults < MaxFaults

(* a URL that carries a token of the record-linkage service *)
IsTokenURL(url) == url # Null /\ url # Undefined

(* fetch rejects or yields no response *)
TransportFailure ==
    /\ inflight.kind # "none"
    /\ response.kind = "none"
    /\ MayFail
    /\ response' = [kind |-> "undefined"]
    /\ faults' = faults + 1
    /\ accepting' = IF inflight.kind = "token" \/ (inflight.kind = "submit" /\ IsTokenURL(inflight.url))
                    THEN FALSE ELSE accepting
    /\ UNCHANGED <<config, thrown, issued, replaced, depseudonymization, patients, pc, frames, inflight,
                   result,
                   nextToken, store, registry, calls, edits, redeemed, tokenInvalidAtCall,
                   atCall, lastEdit, track>>

RespondToken ==
    /\ inflight.kind = "token"
    /\ response.kind = "none"
    /\ \/ /\ nextToken + inflight.amount - 1 <= MaxTokens
          /\ response' = [kind |-> "http", ok |-> TRUE,
                          json |-> [useCallback |-> useCallback,
                                    urlTokens |-> IssueTokens(inflight.amount, nextToken)]]
          /\ nextToken' = nextToken + inflight.amount
          /\ UNCHANGED <<accepting, faults>>
       \/ /\ MayFail \/ nextToken + inflight.amount - 1 > MaxTokens
          /\ response' = [kind |-> "http", ok |-> FALSE]
          /\ faults' = IF MayFail THEN faults + 1 ELSE faults
          /\ accepting' = FALSE
          /\ UNCHANGED nextToken
    /\ UNCHANGED <<config, thrown, issued, replaced, depseudonymization, patients, pc, frames, inflight,
                   result,
                   store, registry, calls, edits, redeemed, tokenInvalidAtCall,
                   atCall, lastEdit, track>>

(* the record-linkage service answers a submission that carries a token; a  *)
(* 201 leaves the submitted fields on its patient list                      *)
RespondSubmit ==
    /\ inflight.kind = "submit"
    /\ IsTokenURL(inflight.url)
    /\ response.kind = "none"
    /\ \/ /\ \E tentative \in BOOLEAN :
               /\ response' = [kind |-> "http", status |-> 201,
                               json |-> ServiceBody(inflight.apiVersion,
                                                    PidOf(FormFields(inflight.body)),
                                                    tentative)]
               /\ registry' = Register(registry, inflight.url, FormFields(inflight.body),
                                       tentative)
          /\ UNCHANGED <<faults, accepting>>
       \/ /\ MayFail
          /\ \E status \in ResponseStatuses \ {201} :
               response' = [kind |-> "http", status |-> status]
          /\ faults' = faults + 1
          /\ accepting' = FALSE
          /\ UNCHANGED registry
    /\ UNCHANGED <<config, thrown, issued, replaced, depseudonymization, patients, pc, frames, inflight,
                   result,
                   nextToken, store, calls, edits, redeemed, tokenInvalidAtCall,
                   atCall, lastEdit, track>>

(* a submission to fetch(null) does not reach the service: the page's origin answers *)
RespondNoToken ==
    /\ inflight.kind = "submit"
    /\ ~IsTokenURL(inflight.url)
    /\ response.kind = "none"
    /\ \E status \in ResponseStatuses \ {201} :
         response' = [kind |-> "http", status |-> status]
    /\ UNCHANGED <<config, thrown, replaced, depseudonymization, patients, pc, frames, inflight,
                   result,
                   services, calls, edits, history>>

(* PatientController.acceptPatients: every received patient is saved *)
acceptPatients(st, data) ==
    [p \in DOMAIN st \cup { data[i].pseudonym : i \in DOMAIN data } |->
       IF \E i \in DOMAIN data : data[i].pseudonym = p
       THEN data[CHOOSE i \in DOMAIN data :
                   /\ data[i].pseudonym = p
                   /\ \A j \in DOMAIN data : data[j].pseudonym = p => j <= i].mdat
       ELSE st[p]]

(* PatientController.requestPatients: one entry per requested pseudonym *)
requestPatients(st, pseudonyms) ==
    [p \in Range(pseudonyms) |-> IF p \in DOMAIN st THEN st[p] ELSE "{}"]

RespondSend ==
    /\ inflight.kind = "send"
    /\ response.kind = "none"
    /\ LET sent == { inflight.data[i].pseudonym : i \in DOMAIN inflight.data }
       IN \/ /\ response' = [kind |-> "http", ok |-> TRUE, json |-> sent]
             /\ store' = acceptPatients(store, inflight.data)
             /\ UNCHANGED faults
          \/ /\ MayFail
             /\ \E successArray \in (SUBSET sent) \ {sent} :
                  response' = [kind |-> "http", ok |-> TRUE, json |-> successArray]
             /\ faults' = faults + 1
             /\ UNCHANGED store
          \/ /\ MayFail
             /\ response' = [kind |-> "http", ok |-> FALSE]
             /\ faults' = faults + 1
             /\ UNCHANGED store
    /\ UNCHANGED <<config, thrown, replaced, depseudonymization, patients, pc, frames, inflight,
                   result,
                   nextToken, registry, calls, edits, history>>

RespondRequest ==
    /\ inflight.kind = "request"
    /\ response.kind = "none"
    /\ \/ /\ response' = [kind |-> "http", ok |-> TRUE,
                          json |-> requestPatients(store, inflight.data)]
          /\ UNCHANGED faults
       \/ /\ \E p \in Range(inflight.data) : p \notin DOMAIN store
          /\ response' = [kind |-> "http", ok |-> TRUE,
                          json |-> [p \in Range(inflight.data) \cap DOMAIN store |-> store[p]]]
          /\ UNCHANGED faults
       \/ /\ MayFail
          /\ response' = [kind |-> "http", ok |-> FALSE]
          /\ faults' = faults + 1
    /\ UNCHANGED <<config, thrown, replaced, depseudonymization, patients, pc, frames, inflight,
                   result,
                   nextToken, store, registry, calls, edits, history>>

(* the read URL the backend hands out: its token grants the listed pseudonyms *)
ReadURL(pseudonyms) == <<"patients?tokenId", "=", <<"read", pseudonyms>>>>

(* the backend's answer to /tokens/readPatients: the pseudonyms the service *)
(* does not hold are reported, the others are granted by one token          *)
ReadToken(reg, pseudonyms) ==
    LET valid == SelectSeq(pseudonyms, LAMBDA p : p \in DOMAIN reg)
        invalidPseudonyms == SelectSeq(pseudonyms, LAMBDA p : p \notin DOMAIN reg)
    IN [url |-> IF valid = <<>> THEN "" ELSE ReadURL(valid),
        invalidPseudonyms |-> invalidPseudonyms]

RespondReadToken ==
    /\ inflight.kind = "readToken"
    /\ response.kind = "none"
    /\ \/ /\ response' = [kind |-> "http", ok |-> TRUE,
                          json |-> ReadToken(registry, inflight.pseudonyms)]
          /\ UNCHANGED faults
       \/ /\ MayFail
          /\ response' = [kind |-> "http", ok |-> FALSE]
          /\ faults' = faults + 1
    /\ UNCHANGED <<config, thrown, replaced, depseudonymization, patients, pc, frames, inflight, result,
                   nextToken, store, registry, calls, edits, history>>

(* the entry of the service's answer for one pseudonym of the token *)
PatientData(reg, pseudonym) ==
    [idString |-> pseudonym,
     tentative |-> reg[pseudonym].tentative,
     fields |-> reg[pseudonym].fields]

(* the record-linkage service redeems a read token: one entry for every    *)
(* granted pseudonym it still holds                                         *)
RespondPatientData ==
    /\ inflight.kind = "patientData"
    /\ inflight.url # ""
    /\ response.kind = "none"
    /\ LET granted == SplitEq1(inflight.url)[2]
       IN \/ /\ \E held \in SUBSET Range(granted) :
                  LET found == SelectSeq(granted, LAMBDA p : p \in held)
                  IN response' = [kind |-> "http", ok |-> TRUE,
                                  json |-> [i \in DOMAIN found |->
                                              PatientData(registry, found[i])]]
             /\ UNCHANGED faults
          \/ /\ MayFail
             /\ response' = [kind |-> "http", ok |-> FALSE]
             /\ faults' = faults + 1
    /\ UNCHANGED <<config, thrown, replaced, depseudonymization, patients, pc, frames, inflight, result,
                   nextToken, store, registry, calls, edits, history>>

Next ==
    \/ UpdateIDAT
    \/ UpdateIDATThrows
    \/ UpdateMDAT
    \/ SetSureness
    \/ SendPatients
    \/ RequestPatients
    \/ CreateEnter
    \/ TokenResume
    \/ CreateLoop
    \/ CreateReturn
    \/ ResolveLoop
    \/ ResolveReturn
    \/ SubmitResume
    \/ MdatEnter
    \/ MdatResume
    \/ Settle
    \/ TransportFailure
    \/ RespondToken
    \/ RespondSubmit
    \/ RespondNoToken
    \/ RespondSend
    \/ RespondRequest

Spec == Init /\ [][Next]_vars

(***************************************************************************)
(* The driver under fair scheduling: the continuation of an answered fetch *)
(* runs, and every fetch is answered or fails.  The caller starts          *)
(* invocations and does not edit records.                                  *)
(***************************************************************************)
FairFirstNames == { <<"A">> }
FairLastNames == { <<"x">>, <<"y">> }
FairBirthdays == { [year |-> 2000, month |-> 1, day |-> 1, time |-> 0] }

FairInit ==
    /\ mainzellisteApiVersion \in ApiVersions
    /\ useCallback \in {JSTrue, JSFalse}
    /\ patients \in [Keys -> { createPatient(f, l, b, "") :
                                 <<f, l, b>> \in
                                   FairFirstNames \X FairLastNames \X FairBirthdays }]
    /\ pc = "idle"
    /\ hp = NoHp
    /\ cp = NoCp
    /\ rc = NoRc
    /\ gp = NoGp
    /\ inflight = NoFetch
    /\ response = NoResponse
    /\ result = "none"
    /\ nextToken = 1
    /\ calls = 0
    /\ edits = 0
    /\ faults = 0
    /\ store = <<>>
    /\ redeemed = {}
    /\ tokenInvalidAtCall = {}
    /\ accepting = TRUE
    /\ atCall = NoSnapshot
    /\ lastEdit = NoEdit
    /\ track = [k \in Keys |-> [submitted |-> FALSE, answered |-> FALSE]]
    /\ dp = NoDp
    /\ registry = <<>>
    /\ exchanges = <<>>
    /\ replaced = NoSnapshot
    /\ issued = <<>>
    /\ thrown = FALSE

(* a step of the running invocation *)
Continue ==
    \/ CreateEnter
    \/ TokenResume
    \/ CreateLoop
    \/ CreateReturn
    \/ ResolveLoop
    \/ ResolveReturn
    \/ SubmitResume
    \/ MdatEnter
    \/ MdatResume

(* the environment settles the fetch in flight *)
Answer ==
    \/ TransportFailure
    \/ RespondToken
    \/ RespondSubmit
    \/ RespondNoToken
    \/ RespondSend
    \/ RespondRequest

FairNext ==
    \/ SendPatients
    \/ RequestPatients
    \/ Continue
    \/ Answer
    \/ Settle

FairSpec == FairInit /\ [][FairNext]_vars /\ WF_vars(Continue) /\ WF_vars(Answer)

(***************************************************************************)
(* The caller edits a record while the invocation awaits the answer to the *)
(* record's identity submission: updateIDAT is synchronous and runs        *)
(* between the fetch and its continuation.                                 *)
(***************************************************************************)
UpdateIDATAwaiting ==
    /\ pc = "await_submit"
    /\ inflight.kind = "submit"
    /\ edits < MaxEdits
    /\ \E f \in FairFirstNames, l \in FairLastNames, b \in FairBirthdays :
         /\ createIDATValid(f, l, b)
         /\ patients' = [patients EXCEPT ![gp.key] = updateIDAT(@, f, l, b)]
         /\ lastEdit' = [op |-> "updateIDAT", key |-> gp.key, firstname |-> f, lastname |-> l,
                         birthday |-> b, threw |-> FALSE]
    /\ edits' = edits + 1
    /\ UNCHANGED <<config, thrown, issued, replaced, depseudonymization, pc, frames, inflight,
                   response, result, services, calls, redeemed, tokenInvalidAtCall, accepting,
                   atCall, track>>

InterleavedNext ==
    \/ UpdateIDATAwaiting
    \/ SendPatients
    \/ RequestPatients
    \/ Continue
    \/ Answer
    \/ Settle

InterleavedSpec == FairInit /\ [][InterleavedNext]_vars

(***************************************************************************)
(* The caller repeats sendPatients for as long as the call throws.  One    *)
(* answer of the environment at most fails; the service has tokens for    *)
(* every repetition that needs them.                                       *)
(***************************************************************************)
RetryInit ==
    /\ mainzellisteApiVersion \in ApiVersions
    /\ useCallback \in {JSTrue, JSFalse}
    /\ patients \in [Keys -> { createPatient(f, l, b, "") :
                                 <<f, l, b>> \in
                                   FairFirstNames \X FairLastNames \X FairBirthdays }]
    /\ pc = "idle"
    /\ hp = NoHp
    /\ cp = NoCp
    /\ rc = NoRc
    /\ gp = NoGp
    /\ inflight = NoFetch
    /\ response = NoResponse
    /\ result = "none"
    /\ nextToken = MaxTokens - 2 * NumKeys
    /\ calls = MaxCalls - 1
    /\ edits = 0
    /\ faults \in {MaxFaults - 1, MaxFaults}
    /\ store = <<>>
    /\ redeemed = {}
    /\ tokenInvalidAtCall = {}
    /\ accepting = TRUE
    /\ atCall = NoSnapshot
    /\ lastEdit = NoEdit
    /\ track = [k \in Keys |-> [submitted |-> FALSE, answered |-> FALSE]]
    /\ dp = NoDp
    /\ registry = <<>>
    /\ exchanges = <<>>
    /\ replaced = NoSnapshot
    /\ issued = <<>>
    /\ thrown = FALSE

(* the caller catches the exception and calls sendPatients again with the  *)
(* same arguments                                                          *)
SendPatientsAgain ==
    /\ pc = "settled"
    /\ result = "threw"
    /\ hp.op = "send"
    /\ hp' = handlePseudonymization("send", hp.keys, hp.includeSucceeded)
    /\ cp' = [NoCp EXCEPT !.keys = hp'.created, !.caller = "handle"]
    /\ rc' = NoRc
    /\ gp' = NoGp
    /\ tokenInvalidAtCall' = { k \in Range(hp.keys) : patients[k].status = TOKEN_INVALID }
    /\ pc' = "createPseudonyms"
    /\ accepting' = TRUE
    /\ result' = "pending"
    /\ atCall' = patients
    /\ lastEdit' = NoEdit
    /\ issued' = <<>>
    /\ UNCHANGED <<config, thrown, replaced, depseudonymization, patients, inflight, response,
                   services, calls, edits, redeemed, track>>

(* the call returned: the caller does not repeat it *)
SettleReturned ==
    /\ result = "returned"
    /\ Settle

(* the environment settles the fetch in flight of a sendPatients call *)
AnswerSend ==
    \/ TransportFailure
    \/ RespondToken
    \/ RespondSubmit
    \/ RespondNoToken
    \/ RespondSend

RetryNext ==
    \/ SendPatients
    \/ SendPatientsAgain
    \/ Continue
    \/ AnswerSend
    \/ SettleReturned

RetrySpec ==
    /\ RetryInit
    /\ [][RetryNext]_vars
    /\ WF_vars(Continue)
    /\ WF_vars(AnswerSend)
    /\ WF_vars(SendPatientsAgain)

(***************************************************************************)
(* The round trip: records are pseudonymized and their pseudonyms are      *)
(* depseudonymized; the caller does not edit a record in between.          *)
(***************************************************************************)
RoundTripFirstNames == { <<"A">> }
RoundTripLastNames == { <<"x">>, <<"y">>, <<"x", "&", "y">> }
RoundTripBirthdays == { [year |-> 2000, month |-> 1, day |-> 1, time |-> 0],
                        [year |-> 2000, month |-> 1, day |-> 1, time |-> 1] }

RoundTripInit ==
    /\ mainzellisteApiVersion \in ApiVersions
    /\ useCallback \in {JSTrue, JSFalse}
    /\ patients \in [Keys -> { createPatient(f, l, b, "") :
                                 <<f, l, b>> \in
                                   { t \in RoundTripFirstNames \X RoundTripLastNames
                                             \X RoundTripBirthdays :
                                       createIDATValid(t[1], t[2], t[3]) } }]
    /\ pc = "idle"
    /\ hp = NoHp
    /\ cp = NoCp
    /\ rc = NoRc
    /\ gp = NoGp
    /\ inflight = NoFetch
    /\ response = NoResponse
    /\ result = "none"
    /\ nextToken = 1
    /\ calls = 0
    /\ edits = 0
    /\ faults = MaxFaults - 1
    /\ store = <<>>
    /\ redeemed = {}
    /\ tokenInvalidAtCall = {}
    /\ accepting = TRUE
    /\ atCall = NoSnapshot
    /\ lastEdit = NoEdit
    /\ track = [k \in Keys |-> [submitted |-> FALSE, answered |-> FALSE]]
    /\ dp = NoDp
    /\ registry = <<>>
    /\ exchanges = <<>>
    /\ replaced = NoSnapshot
    /\ issued = <<>>
    /\ thrown = FALSE

RoundTripNext ==
    \/ SendPatients
    \/ RequestPatients
    \/ CreateEnter
    \/ TokenResume
    \/ CreateLoop
    \/ CreateReturn
    \/ ResolveLoop
    \/ ResolveReturn
    \/ SubmitResume
    \/ MdatEnter
    \/ MdatResume
    \/ Settle
    \/ Depseudonymize
    \/ ReadTokenResume
    \/ PatientDataResume
    \/ DepSettle
    \/ TransportFailure
    \/ RespondToken
    \/ RespondSubmit
    \/ RespondNoToken
    \/ RespondSend
    \/ RespondRequest
    \/ RespondReadToken
    \/ RespondPatientData

RoundTripSpec == RoundTripInit /\ [][RoundTripNext]_vars

(***************************************************************************)
(* The medical-data exchange: records are stored with a payload, the       *)
(* caller replaces them by newly created records of the same identities    *)
(* and requests the payloads.                                              *)
(***************************************************************************)
ExchangeLastNames == { <<"x">>, <<"y">>, <<"x", "&", "y">> }
ExchangeBirthdays == { [year |-> 2000, month |-> 1, day |-> 1, time |-> 0] }

(* records with payloads, pseudonyms used directly, and a service that has *)
(* a token for every record of every invocation                           *)
ExchangeInit ==
    /\ mainzellisteApiVersion \in ApiVersions
    /\ useCallback = JSFalse
    /\ patients \in [Keys -> { createPatient(<<"A">>, l, b, mdat) :
                                 <<l, b, mdat>> \in
                                   ExchangeLastNames \X ExchangeBirthdays \X Mdats }]
    /\ pc = "idle"
    /\ hp = NoHp
    /\ cp = NoCp
    /\ rc = NoRc
    /\ gp = NoGp
    /\ inflight = NoFetch
    /\ response = NoResponse
    /\ result = "none"
    /\ nextToken = MaxTokens + 1 - MaxCalls * NumKeys
    /\ calls = 0
    /\ edits = 0
    /\ faults = MaxFaults - 1
    /\ store = <<>>
    /\ redeemed = {}
    /\ tokenInvalidAtCall = {}
    /\ accepting = TRUE
    /\ atCall = NoSnapshot
    /\ lastEdit = NoEdit
    /\ track = [k \in Keys |-> [submitted |-> FALSE, answered |-> FALSE]]
    /\ dp = NoDp
    /\ registry = <<>>
    /\ exchanges = <<>>
    /\ replaced = NoSnapshot
    /\ issued = <<>>
    /\ thrown = FALSE

(* the caller starts a new map: for every record a newly created one with  *)
(* the same identity and an empty payload                                  *)
CreatePatients ==
    /\ pc = "idle"
    /\ edits < MaxEdits
    /\ replaced' = patients
    /\ patients' = [k \in Keys |->
                      createPatient(patients[k].idat.firstname, patients[k].idat.lastname,
                                    patients[k].idat.birthday, "")]
    /\ track' = [k \in Keys |-> [submitted |-> FALSE, answered |-> FALSE]]
    /\ lastEdit' = [op |-> "createPatient"]
    /\ edits' = edits + 1
    /\ UNCHANGED <<config, thrown, issued, depseudonymization, pc, frames, inflight, response, result,
                   services, calls, redeemed, tokenInvalidAtCall, accepting, atCall>>

ExchangeNext ==
    \/ CreatePatients
    \/ SendPatients
    \/ RequestPatients
    \/ CreateEnter
    \/ TokenResume
    \/ CreateLoop
    \/ CreateReturn
    \/ ResolveLoop
    \/ ResolveReturn
    \/ SubmitResume
    \/ MdatEnter
    \/ MdatResume
    \/ Settle
    \/ TransportFailure
    \/ RespondToken
    \/ RespondSubmit
    \/ RespondNoToken
    \/ RespondSend
    \/ RespondRequest

ExchangeSpec == ExchangeInit /\ [][ExchangeNext]_vars

TypeOK ==
    /\ pc \in {"idle", "createPseudonyms", "await_token", "create_loop", "create_return",
               "resolve_loop", "resolve_return", "await_submit", "mdat", "await_mdat", "settled",
               "await_read_token", "await_patient_data", "dep_settled"}
    /\ \A k \in Keys : patients[k].status \in
         {IDAT_CONFLICT, TOKEN_INVALID, IDAT_INVALID, CREATED, PSEUDONYMIZED,
          PROCESSED, NOT_PROCESSED, FOUND, NOT_FOUND}

(***************************************************************************)
(* Properties                                                              *)
(***************************************************************************)
(* getPseudonym has handled an http answer for the record gp.key *)
Handled == gp.returned # "none" /\ gp.response.kind = "http"

(* an answer awaits getPseudonym: its next step handles it *)
Handling == pc = "await_submit" /\ response.kind = "http"

StatusFor(status) ==
    CASE status = 201 -> PSEUDONYMIZED
      [] status = 400 -> IDAT_INVALID
      [] status = 401 -> TOKEN_INVALID
      [] status = 409 -> IDAT_CONFLICT

(* the identifier a 201 body carries *)
BodyId(json) == IF json.shape = "object" THEN json.newId ELSE json.idString

(* C1: the response status alone determines the record's new status (201 ->
   PSEUDONYMIZED, 400 -> IDAT_INVALID, 401 -> TOKEN_INVALID, 409 -> IDAT_CONFLICT),
   and when getPseudonym returns, it returns true exactly when that status is
   PSEUDONYMIZED. *)
C1_StatusFromResponse ==
    [][ (Handling /\ response.status \in DefinedStatuses)
          => /\ patients'[gp.key].status = StatusFor(response.status)
             /\ gp'.returned = "true" => patients'[gp.key].status = PSEUDONYMIZED
             /\ gp'.returned = "false" => patients'[gp.key].status # PSEUDONYMIZED ]_vars

C1_Witness ==
    /\ Handled
    /\ gp.response.status = 409
    /\ gp.returned = "false"
    /\ patients[gp.key].status = IDAT_CONFLICT

(* C2: after a defined outcome the record's tokenURL is the URL just submitted
   for 400 and 409, and null for 201 and 401. *)
C2_TokenKeptOrDiscarded ==
    (Handled /\ gp.response.status \in DefinedStatuses)
      => patients[gp.key].tokenURL =
           IF gp.response.status \in {400, 409} THEN gp.requestURL ELSE Null

(* C3: an answer with any other status makes getPseudonym throw and leaves the
   record as it was; the record does not become PSEUDONYMIZED. *)
C3_UnknownStatusThrows ==
    [][ (Handling /\ response.status \notin DefinedStatuses)
          => /\ gp'.returned = "threw"
             /\ result' = "threw"
             /\ patients'[gp.key].status = patients[gp.key].status
             /\ patients'[gp.key].pseudonym = patients[gp.key].pseudonym ]_vars

C3_Witness ==
    /\ Handled
    /\ gp.response.status = 500
    /\ gp.returned = "threw"
    /\ IsTokenURL(gp.requestURL)
    /\ patients[gp.key].status = CREATED

(* C4: getPseudonym does not throw on a defined outcome, whatever the API
   version and the kind of token. *)
C4_NoThrowOnDefinedOutcome ==
    (Handled /\ gp.response.status \in DefinedStatuses) => gp.returned # "threw"

(* C5: on 201 the pseudonym is the identifier of the response body, or the
   token id of the submitted URL when the token is callback-mediated, and the
   tentative flag is that of the response body. *)
C5_PseudonymAndTentativeFromBody ==
    (Handled /\ gp.response.status = 201)
      => /\ patients[gp.key].pseudonym =
              IF patients[gp.key].tokenUseCallback = JSTrue
              THEN SplitEq1(gp.requestURL)
              ELSE BodyId(gp.response.json)
         /\ patients[gp.key].tentative = gp.response.json.tentative

(* an identity submission for the record gp.key is awaiting its answer *)
Submitting == pc = "await_submit" /\ inflight.kind = "submit"

(* C6: resolveConflicts submits a TOKEN_INVALID record only through
   createPseudonyms, with a freshly issued token, and resubmits a record in
   IDAT_INVALID or IDAT_CONFLICT itself, with the record's retained tokenURL. *)
C6_ResolveRoutesByStatus ==
    /\ (Submitting /\ patients[gp.key].status = TOKEN_INVALID)
         => /\ gp.caller = "create"
            /\ cp.caller = "resolve"
            /\ IsTokenURL(inflight.url)
    /\ (Submitting /\ gp.caller = "resolve")
         => /\ patients[gp.key].status \in {IDAT_INVALID, IDAT_CONFLICT}
            /\ inflight.url = patients[gp.key].tokenURL

(* C7: a record that was TOKEN_INVALID when sendPatients/requestPatients was
   invoked again, its data untouched by the caller, is PSEUDONYMIZED (or further)
   when that invocation settles, if the service issued every token asked for and
   accepted every submission that carried a token. *)
C7_TokenInvalidRecovers ==
    (pc = "settled" /\ accepting /\ edits = 0)
      => \A k \in tokenInvalidAtCall :
           patients[k].status \in {PSEUDONYMIZED} \cup PostSyncStatuses

NoDuplicates(seq) == \A i, j \in DOMAIN seq : seq[i] = seq[j] => i = j

(* C8: when resolveConflicts returns, pseudonymized and conflicts partition its
   input keys: each input key is in exactly one of them, once, the records of
   pseudonymized are PSEUDONYMIZED, those of conflicts are in a failure state,
   and neither list holds anything but input keys. *)
C8_ResolvePartition ==
    pc = "resolve_return"
      => /\ Range(rc.pseudonymized) \cup Range(rc.conflicts) = Range(rc.keys)
         /\ Range(rc.pseudonymized) \cap Range(rc.conflicts) = {}
         /\ NoDuplicates(rc.pseudonymized \o rc.conflicts)
         /\ \A k \in Range(rc.pseudonymized) : patients[k].status = PSEUDONYMIZED
         /\ \A k \in Range(rc.conflicts) : patients[k].status \in FailureStatuses

C8_Witness ==
    /\ pc = "resolve_return"
    /\ Len(rc.keys) = 2
    /\ tokenInvalidAtCall # {}
    /\ rc.pseudonymized # <<>>
    /\ rc.conflicts # <<>>

(* C9 as stated: no identity submission is issued for a record in IDAT_INVALID
   that the caller has not changed. *)
C9_NoResubmitOfInvalid ==
    ~(Submitting /\ patients[gp.key].status = IDAT_INVALID /\ edits = 0)

(* C9 amended: a record in IDAT_INVALID is resubmitted by the resolve pass,
   changed by the caller or not, with the record's retained tokenURL and without
   a new token. *)
C9_ResubmitsInvalidWithRetainedToken ==
    (Submitting /\ patients[gp.key].status = IDAT_INVALID)
      => /\ gp.caller = "resolve"
         /\ inflight.url = patients[gp.key].tokenURL
         /\ <<inflight.url, gp.key>> \in redeemed

C9_Witness ==
    /\ Submitting
    /\ patients[gp.key].status = IDAT_INVALID
    /\ IsTokenURL(inflight.url)
    /\ edits = 0

(* C10: no token URL is submitted for two different records, and createPseudonyms
   submits token i of the issued array for the record at index i of its key list. *)
C10_TokenPerRecord ==
    /\ \A s1, s2 \in redeemed :
         (IsTokenURL(s1[1]) /\ s1[1] = s2[1]) => s1[2] = s2[2]
    /\ (Submitting /\ gp.caller = "create")
         => /\ gp.key = cp.keys[cp.i + 1]
            /\ inflight.url = ArrayAt(cp.urlTokens, cp.i)

C10_Witness ==
    \E s1, s2 \in redeemed :
      /\ IsTokenURL(s1[1]) /\ IsTokenURL(s2[1])
      /\ s1[2] # s2[2]
      /\ \E s3 \in redeemed : s3[2] = s1[2] /\ s3[1] # s1[1] /\ IsTokenURL(s3[1])

(* C11: a token request for n records is one request that yields n token URLs,
   and no identity submission is issued against a missing token. *)
C11_EverySubmissionHasToken ==
    /\ inflight.kind = "token" => (inflight.amount = Len(cp.keys) /\ cp.urlTokens = <<>>)
    /\ pc = "create_loop" => Len(cp.urlTokens) = Len(cp.keys)
    /\ Submitting => IsTokenURL(inflight.url)

(* C12: when the token request fails, the invocation throws, no identity
   submission was made in it, no record differs from what it was when the
   invocation began, and nothing further is sent: the next step hands the
   exception to the caller. *)
C12_TokenFailureAbortsBatch ==
    [][ /\ (pc = "await_token" /\ response.kind # "none"
              /\ ~(response.kind = "http" /\ response.ok))
           => /\ pc' = "settled"
              /\ result' = "threw"
              /\ gp' = NoGp
              /\ patients' = atCall
              /\ inflight' = NoFetch
        /\ (pc = "settled" /\ result = "threw")
           => (pc' = "idle" /\ inflight' = NoFetch /\ patients' = patients) ]_vars

C12_Witness ==
    /\ pc = "settled"
    /\ result = "threw"
    /\ Len(cp.keys) = 2
    /\ cp.urlTokens = <<>>
    /\ gp = NoGp
    /\ patients = atCall

(* C13: a 400, 401 or 409 answer does not abort the batch: the status records
   the outcome, the key goes to the conflicts list of the running function, no
   exception is raised, the loop goes on to submit the next record, and the
   function returns with every key in one of its lists. *)
C13_FailedRecordDoesNotAbort ==
    [][ /\ (Handling /\ response.status \in {400, 401, 409})
           => /\ result' = "pending"
              /\ patients'[gp.key].status = StatusFor(response.status)
              /\ IF gp.caller = "create"
                 THEN /\ pc' = "create_loop"
                      /\ cp'.conflicts = Append(cp.conflicts, gp.key)
                      /\ cp'.pseudonymized = cp.pseudonymized
                      /\ cp'.i = cp.i + 1
                 ELSE /\ pc' = "resolve_loop"
                      /\ rc'.conflicts = Append(rc.conflicts, gp.key)
                      /\ rc'.pseudonymized = rc.pseudonymized
                      /\ rc'.i = rc.i + 1
        /\ (pc = "create_loop" /\ cp.i < Len(cp.keys))
           => (pc' = "await_submit" /\ gp'.key = cp.keys[cp.i + 1])
        /\ (pc = "create_loop" /\ cp.i >= Len(cp.keys))
           => /\ pc' = "create_return"
              /\ Range(cp.pseudonymized) \cup Range(cp.conflicts) = Range(cp.keys)
        /\ (pc = "resolve_loop" /\ rc.i < Len(rc.keys))
           => (pc' = "await_submit" /\ gp'.key = rc.keys[rc.i + 1])
        /\ (pc = "resolve_loop" /\ rc.i >= Len(rc.keys))
           => pc' = "resolve_return" ]_vars

C13_Witness ==
    /\ pc = "create_return"
    /\ cp.keys = <<1, 2>>
    /\ cp.conflicts = <<1>>
    /\ cp.pseudonymized = <<2>>
    /\ patients[1].status \in FailureStatuses
    /\ patients[2].status = PSEUDONYMIZED

(* a medical-data exchange is awaiting its answer *)
Exchanging == inflight.kind \in {"send", "request"}

(* C14: the medical-data exchange is issued after every identity submission of
   the invocation has completed, and only for keys whose record then has a
   pseudonym and is PSEUDONYMIZED (or, with retrySucceeded and a token that is
   not callback-mediated, in a post-sync status); no key of a record in a
   failure state is sent. *)
C14_ExchangeAfterSubmissions ==
    Exchanging
      => /\ pc = "await_mdat"
         /\ Range(cp.pseudonymized) \cup Range(cp.conflicts) = Range(hp.created)
         /\ Range(rc.pseudonymized) \cup Range(rc.conflicts) = Range(hp.conflicts)
         /\ Len(inflight.data) = Len(hp.pseudonymized)
         /\ \A k \in Range(hp.pseudonymized) :
              /\ k \in Keys
              /\ patients[k].pseudonym # Null
              /\ \/ patients[k].status = PSEUDONYMIZED
                 \/ /\ hp.includeSucceeded
                    /\ patients[k].tokenUseCallback # JSTrue
                    /\ patients[k].status \in PostSyncStatuses
         /\ \A k \in Keys :
              patients[k].status \in FailureStatuses => k \notin Range(hp.pseudonymized)

C14_Witness ==
    /\ Exchanging
    /\ hp.created = <<1, 2>>
    /\ patients[1].status \in FailureStatuses
    /\ hp.pseudonymized = <<2>>

(* C15: with retrySucceeded false a record that is in a post-sync status when
   the invocation begins is left as it is: it is in no partition, no token is
   requested for it, it is not submitted and not part of the exchange. *)
C15_SyncedRecordsUntouched ==
    (pc # "idle" /\ ~hp.includeSucceeded)
      => \A k \in Keys :
           atCall[k].status \in PostSyncStatuses
             => /\ patients[k] = atCall[k]
                /\ k \notin Range(hp.created) \cup Range(hp.conflicts)
                                             \cup Range(hp.pseudonymized)
                /\ k \notin Range(cp.keys) \cup Range(rc.keys)
                /\ gp.key # k

C15_Witness ==
    /\ Exchanging
    /\ ~hp.includeSucceeded
    /\ atCall[1].status \in PostSyncStatuses
    /\ hp.pseudonymized = <<2>>

(* C16: with retrySucceeded true a record in a post-sync status is submitted
   again, through createPseudonyms with a token of the array just acquired, exactly
   when its tokenUseCallback is true; otherwise it is not submitted and goes to the
   exchange as it is, with the pseudonym it has. *)
C16_RetrySucceededRouting ==
    (pc # "idle" /\ hp.includeSucceeded)
      => \A k \in Keys :
           atCall[k].status \in PostSyncStatuses
             => IF atCall[k].tokenUseCallback = JSTrue
                THEN /\ k \in Range(hp.created)
                     /\ k \notin Range(hp.conflicts)
                     /\ (Submitting /\ gp.key = k)
                          => /\ gp.caller = "create"
                             /\ IsTokenURL(inflight.url)
                             /\ inflight.url = ArrayAt(cp.urlTokens, cp.i)
                             /\ inflight.url # atCall[k].tokenURL
                ELSE /\ k \notin Range(hp.created) \cup Range(hp.conflicts)
                     /\ k \in Range(hp.pseudonymized)
                     /\ gp.key # k
                     /\ pc # "settled" => patients[k] = atCall[k]
                     /\ Exchanging
                          => \E i \in DOMAIN hp.pseudonymized :
                               /\ hp.pseudonymized[i] = k
                               /\ (IF hp.op = "send" THEN inflight.data[i].pseudonym
                                                     ELSE inflight.data[i])
                                    = atCall[k].pseudonym

C16_Witness ==
    /\ Submitting
    /\ hp.includeSucceeded
    /\ atCall[gp.key].status \in PostSyncStatuses
    /\ atCall[gp.key].tokenUseCallback = JSTrue

(* the other case of C16: a synced record without a callback token is exchanged again *)
C16_WitnessPassedThrough ==
    /\ Exchanging
    /\ hp.includeSucceeded
    /\ \E k \in Range(hp.pseudonymized) :
         atCall[k].status \in PostSyncStatuses /\ atCall[k].tokenUseCallback = JSFalse

(* the caller's operation `op` has just been applied to the record lastEdit'.key *)
Edited(op) == edits' = edits + 1 /\ lastEdit'.op = op

Succeeded == {PSEUDONYMIZED} \cup PostSyncStatuses

(* C17: updateIDAT with a valid identity that differs from the current one
   resets pseudonym to null and status to CREATED when the status is
   PSEUDONYMIZED or a post-sync status; with an equal identity it leaves status
   and pseudonym as they are. *)
C17_UpdateIDATResets ==
    [][ (Edited("updateIDAT") /\ ~lastEdit'.threw)
          => LET k == lastEdit'.key
                 differs == patients'[k].idat # patients[k].idat
             IN /\ (differs /\ patients[k].status \in Succeeded)
                     => /\ patients'[k].pseudonym = Null
                        /\ patients'[k].status = CREATED
                /\ ~differs
                     => /\ patients'[k].pseudonym = patients[k].pseudonym
                        /\ patients'[k].status = patients[k].status ]_vars

C17_Witness ==
    /\ lastEdit.op = "updateIDAT"
    /\ ~lastEdit.threw
    /\ patients[lastEdit.key].status = CREATED
    /\ patients[lastEdit.key].pseudonym = Null
    /\ track[lastEdit.key] = [submitted |-> FALSE, answered |-> FALSE]
    /\ patients[lastEdit.key].tokenUseCallback # JSNull
    /\ patients[lastEdit.key].tokenURL = Null

(* C18 as stated: a record is CREATED exactly when it has not been submitted
   since it was created or since its identity was changed after a success. *)
C18_CreatedIffNeverSubmitted ==
    \A k \in Keys : (patients[k].status = CREATED) <=> ~track[k].submitted

(* C18 amended: a record is CREATED exactly when no submission of it has been
   answered 201, 400, 401 or 409 since it was created or last reset, a reset being
   updateIDAT with a different identity on a record that had succeeded, or
   updateMDAT with a different payload on a synced record whose token is
   callback-mediated. *)
C18_CreatedIffNoOutcome ==
    \A k \in Keys : (patients[k].status = CREATED) <=> ~track[k].answered

C18_Witness ==
    /\ lastEdit.op = "updateMDAT"
    /\ patients[lastEdit.key].status = CREATED
    /\ patients[lastEdit.key].pseudonym # Null
    /\ track[lastEdit.key] = [submitted |-> TRUE, answered |-> FALSE]

(* the other new case of C18: a submission that got no defined answer *)
C18_WitnessNoAnswer ==
    /\ pc = "settled"
    /\ result = "threw"
    /\ gp.key \in Keys
    /\ patients[gp.key].status = CREATED
    /\ track[gp.key] = [submitted |-> TRUE, answered |-> FALSE]

NonBlank(s) == \E i \in DOMAIN s : s[i] # " "

Blanks(n) == [i \in 1..n |-> " "]

(* t is s without its leading and trailing blanks *)
IsTrimOf(t, s) ==
    /\ t # <<>> => (t[1] # " " /\ t[Len(t)] # " ")
    /\ \E a, b \in 0..Len(s) : s = Blanks(a) \o t \o Blanks(b)

NotLater(d, e) ==
    \/ d.year < e.year
    \/ d.year = e.year /\ d.month < e.month
    \/ d.year = e.year /\ d.month = e.month /\ d.day < e.day
    \/ d.year = e.year /\ d.month = e.month /\ d.day = e.day /\ d.time <= e.time

ValidInput(firstname, lastname, birthday) ==
    /\ NonBlank(firstname)
    /\ NonBlank(lastname)
    /\ birthday # NaNDate
    /\ NotLater(birthday, Now)

(* C19: createIDAT returns exactly when firstname and lastname are non-empty
   after trimming and the birthday is a date not later than now, and throws
   otherwise; the names it returns are the trimmed inputs; no record holds an
   invalid identity. *)
C19_IdentityValidated ==
    /\ \A k \in Keys :
         LET idat == patients[k].idat
         IN /\ ValidInput(idat.firstname, idat.lastname, idat.birthday)
            /\ IsTrimOf(idat.firstname, idat.firstname)
            /\ IsTrimOf(idat.lastname, idat.lastname)
    /\ lastEdit.op = "updateIDAT"
         => /\ ~lastEdit.threw
                 <=> ValidInput(lastEdit.firstname, lastEdit.lastname, lastEdit.birthday)
            /\ ~lastEdit.threw
                 => LET idat == patients[lastEdit.key].idat
                    IN /\ IsTrimOf(idat.firstname, lastEdit.firstname)
                       /\ IsTrimOf(idat.lastname, lastEdit.lastname)
                       /\ idat.birthday = lastEdit.birthday

C19_Witness ==
    /\ lastEdit.op = "updateIDAT"
    /\ ~lastEdit.threw
    /\ lastEdit.firstname = <<" ", "A">>
    /\ lastEdit.lastname = <<"y", " ">>
    /\ patients[lastEdit.key].idat.firstname = <<"A">>
    /\ patients[lastEdit.key].idat.lastname = <<"y">>

(* C20: updateMDAT with a payload that differs from the current one sets the
   status of a sent or requested record to PSEUDONYMIZED; with an equal payload,
   or on a record that is CREATED, PSEUDONYMIZED or in a failure state, it leaves
   the status as it is. *)
C20_UpdateMDATSetsPseudonymized ==
    [][ Edited("updateMDAT")
          => LET k == lastEdit'.key
             IN IF /\ lastEdit'.mdat # patients[k].mdat
                   /\ patients[k].status \in PostSyncStatuses
                THEN patients'[k].status = PSEUDONYMIZED
                ELSE patients'[k].status = patients[k].status ]_vars


(***************************************************************************)
(* Depseudonymization                                                      *)
(***************************************************************************)
DepReturned == pc = "dep_settled" /\ result = "returned"

(* the fetches the running depseudonymize has issued so far *)
Issued ==
    [i \in DOMAIN exchanges |-> exchanges[i].request]
        \o (IF inflight.kind = "none" THEN <<>> ELSE <<inflight>>)

IssuedOf(kind) == { i \in DOMAIN Issued : Issued[i].kind = kind }

(* the token step answered, and what it reported *)
TokenAnswered ==
    /\ exchanges # <<>>
    /\ exchanges[1].response.kind = "http"
    /\ exchanges[1].response.ok

Reported == exchanges[1].response.json.invalidPseudonyms

(* the pseudonyms of the entries the identity retrieval returned *)
Retrieved ==
    IF Len(exchanges) = 2 /\ exchanges[2].response.kind = "http" /\ exchanges[2].response.ok
    THEN { exchanges[2].response.json[i].idString : i \in DOMAIN exchanges[2].response.json }
    ELSE {}

(* C21: the map depseudonymize returns has at most as many entries as the  *)
(* input has distinct pseudonyms, duplicates in the input included: a      *)
(* pseudonym has at most one entry.                                        *)
C21_OneEntryPerPseudonym ==
    DepReturned =>
        Cardinality(DOMAIN dp.depseudonymized) <= Cardinality(Range(dp.pseudonyms))

(* the input named a pseudonym twice, the service returned its entry twice *)
C21_Witness ==
    /\ DepReturned
    /\ Len(dp.pseudonyms) = 2
    /\ dp.pseudonyms[1] = dp.pseudonyms[2]
    /\ Len(exchanges) = 2
    /\ Len(exchanges[2].response.json) = 2
    /\ Cardinality(DOMAIN dp.depseudonymized) = 1

(* C22: the pseudonym list posted in the read-token request holds every    *)
(* distinct pseudonym of the input exactly once.                           *)
C22_ReadTokenRequestDeduplicated ==
    inflight.kind = "readToken" =>
        /\ NoDuplicates(inflight.pseudonyms)
        /\ Range(inflight.pseudonyms) = Range(dp.pseudonyms)

(* C23: the invalid list depseudonymize returns is the invalidPseudonyms   *)
(* list of the token step; a pseudonym with no entry in the retrieval      *)
(* answer gets no entry in the map and is not added to the invalid list.   *)
C23_InvalidIsReported ==
    DepReturned =>
        /\ dp.invalid = (IF exchanges = <<>> THEN <<>> ELSE Reported)
        /\ \A p \in Range(dp.pseudonyms) \ Retrieved : p \notin DOMAIN dp.depseudonymized

(* a granted pseudonym is missing from the retrieval answer *)
C23_Witness ==
    /\ DepReturned
    /\ Len(exchanges) = 2
    /\ \E p \in Range(dp.pseudonyms) :
         /\ p \notin Range(Reported)
         /\ p \notin Retrieved
         /\ p \notin Range(dp.invalid)
         /\ p \notin DOMAIN dp.depseudonymized

(* C24: a depseudonymize call issues at most one read-token request and at *)
(* most one identity retrieval; on an empty input it issues no request and *)
(* returns an empty map and an empty invalid list; when the token step     *)
(* returns an empty url it issues no retrieval and returns an empty map    *)
(* with the reported invalid list.                                         *)
C24_OneTokenOneRetrieval ==
    pc \in {"await_read_token", "await_patient_data", "dep_settled"} =>
        /\ Cardinality(IssuedOf("readToken")) <= 1
        /\ Cardinality(IssuedOf("patientData")) <= 1
        /\ Len(Issued) <= 2
        /\ dp.pseudonyms = <<>> =>
             /\ Issued = <<>>
             /\ DepReturned
             /\ dp.depseudonymized = <<>>
             /\ dp.invalid = <<>>
        /\ (TokenAnswered /\ exchanges[1].response.json.url = "") =>
             /\ Len(Issued) = 1
             /\ DepReturned
             /\ dp.depseudonymized = <<>>
             /\ dp.invalid = Reported

(* the token step returned an empty url for a non-empty input *)
C24_Witness ==
    /\ DepReturned
    /\ dp.pseudonyms # <<>>
    /\ TokenAnswered
    /\ exchanges[1].response.json.url = ""
    /\ Reported # <<>>

(* an empty input returned at once *)
C24_WitnessEmptyInput ==
    /\ DepReturned
    /\ dp.pseudonyms = <<>>
    /\ exchanges = <<>>

(* a call that redeemed its read token *)
C24_WitnessRedeemed ==
    /\ DepReturned
    /\ Cardinality(IssuedOf("readToken")) = 1
    /\ Cardinality(IssuedOf("patientData")) = 1
    /\ dp.depseudonymized # <<>>


(* the records whose pseudonym the returned map holds *)
Matched(k) ==
    /\ patients[k].pseudonym # Null
    /\ patients[k].pseudonym \in Range(dp.pseudonyms)
    /\ patients[k].pseudonym \in DOMAIN dp.depseudonymized

(* an identity the form body carries whole: names without "&" and "+", a   *)
(* birthday at midnight                                                    *)
Plain(idat) ==
    /\ FormValue(idat.firstname) = idat.firstname
    /\ FormValue(idat.lastname) = idat.lastname
    /\ idat.birthday.time = 0

(* C25: depseudonymizing the pseudonym of a pseudonymized record returns   *)
(* an identity equal to the idat of the record, with direct tokens and     *)
(* with callback-mediated tokens.                                          *)
C25_RoundTrip ==
    DepReturned =>
        \A k \in Keys :
            Matched(k) =>
                IdatEqual(dp.depseudonymized[patients[k].pseudonym].idat, patients[k].idat)

(* the round trip of an identity the form body carries whole *)
C25_PlainRoundTrip ==
    DepReturned =>
        \A k \in Keys :
            (Matched(k) /\ Plain(patients[k].idat)) =>
                IdatEqual(dp.depseudonymized[patients[k].pseudonym].idat, patients[k].idat)

(* a round trip that returned the identity of the record *)
C25_Witness ==
    /\ DepReturned
    /\ \E k \in Keys :
         /\ Matched(k)
         /\ patients[k].tokenUseCallback = JSTrue
         /\ IdatEqual(dp.depseudonymized[patients[k].pseudonym].idat, patients[k].idat)


(* freshly created records with one birthdate and pairwise distinct last names *)
FreshBatch(pats) ==
    /\ \A k \in Keys : pats[k].status = CREATED /\ pats[k].pseudonym = Null
    /\ \A j, k \in Keys :
         /\ GetTime(pats[j].idat.birthday) = GetTime(pats[k].idat.birthday)
         /\ j # k => pats[j].idat.lastname # pats[k].idat.lastname

(* the pseudonymization pass of the first invocation is over *)
FirstPassOver ==
    /\ calls = 1
    /\ pc = "mdat" \/ (pc = "settled" /\ result = "threw")

AllPseudonymized ==
    \A k \in Keys : patients[k].status = PSEUDONYMIZED /\ patients[k].pseudonym # Null

DistinctPseudonyms ==
    \A j, k \in Keys : j # k => patients[j].pseudonym # patients[k].pseudonym

(* the pseudonyms of all records were depseudonymized after one invocation *)
(* and the service returned an entry for every pseudonym it granted        *)
BatchDepseudonymized ==
    /\ DepReturned
    /\ calls = 2
    /\ \A k \in Keys : patients[k].pseudonym # Null
    /\ dp.pseudonyms = [i \in 1..NumKeys |-> patients[i].pseudonym]
    /\ TokenAnswered
    /\ Len(exchanges) = 2 => Retrieved = Range(SplitEq1(exchanges[2].request.url)[2])

(* C26: one pseudonymization pass over freshly created records with one    *)
(* birthdate and pairwise distinct last names, answered by an accepting    *)
(* service, leaves every record PSEUDONYMIZED with a pseudonym of its own; *)
(* depseudonymizing all the pseudonyms returns no invalid pseudonym and    *)
(* one match per record.                                                   *)
C26_BatchRoundTrip ==
    /\ (FirstPassOver /\ accepting /\ FreshBatch(atCall)) =>
           AllPseudonymized /\ DistinctPseudonyms
    /\ (BatchDepseudonymized /\ FreshBatch([k \in Keys |->
                                              [patients[k] EXCEPT !.status = CREATED,
                                                                  !.pseudonym = Null]])) =>
           /\ dp.invalid = <<>>
           /\ Cardinality(DOMAIN dp.depseudonymized) = NumKeys
           /\ \A k \in Keys : Matched(k)

(* a batch that made the round trip *)
C26_Witness ==
    /\ BatchDepseudonymized
    /\ \A j, k \in Keys : j # k => patients[j].idat.lastname # patients[k].idat.lastname
    /\ DistinctPseudonyms
    /\ dp.invalid = <<>>
    /\ \A k \in Keys : Matched(k)


(***************************************************************************)
(* The medical-data exchange                                               *)
(***************************************************************************)
(* the step in which send or request returns after its fetch *)
ExchangeReturns(op) ==
    /\ pc = "await_mdat"
    /\ hp.op = op
    /\ pc' = "settled"
    /\ result' = "returned"

(* every record was freshly created when the invocation began *)
FreshAtCall ==
    /\ atCall # NoSnapshot
    /\ \A k \in Keys : atCall[k].status = CREATED

(* C27: when sendPatients returns, every record it sent is PROCESSED if    *)
(* the backend reported success for its pseudonym and NOT_PROCESSED        *)
(* otherwise; on freshly created records, with a service that accepted     *)
(* every submission and a backend that reported success for every          *)
(* payload, every record of the map is PROCESSED.                          *)
C27_SentRecordsProcessed ==
    [][ExchangeReturns("send") =>
          /\ \A k \in Range(hp.pseudonymized) :
               patients'[k].status =
                  IF patients[k].pseudonym \in response.json THEN PROCESSED ELSE NOT_PROCESSED
          /\ (/\ FreshAtCall
              /\ accepting
              /\ \A k \in Range(hp.pseudonymized) : patients[k].pseudonym \in response.json) =>
                 \A k \in Keys : patients'[k].status = PROCESSED]_vars

(* sendPatients returned on fresh records, all of them stored *)
C27_Witness ==
    /\ pc = "settled"
    /\ hp.op = "send"
    /\ result = "returned"
    /\ FreshAtCall
    /\ accepting
    /\ \A k \in Keys : patients[k].status = PROCESSED /\ patients[k].pseudonym \in DOMAIN store

(* sendPatients returned with a record the backend did not report *)
C27_WitnessNotProcessed ==
    /\ pc = "settled"
    /\ hp.op = "send"
    /\ result = "returned"
    /\ \E j, k \in Keys : patients[j].status = PROCESSED /\ patients[k].status = NOT_PROCESSED


(* sendPatients stored every record of a map of distinct identities, the   *)
(* caller replaced the records by newly created ones and requestPatients   *)
(* on them has settled; pseudonyms are used directly and no service failed *)
StoredThenRequested ==
    /\ pc = "settled"
    /\ hp.op = "request"
    /\ replaced # NoSnapshot
    /\ FreshAtCall
    /\ useCallback = JSFalse
    /\ accepting
    /\ faults = MaxFaults - 1
    /\ \A k \in Keys : replaced[k].status = PROCESSED
    /\ \A j, k \in Keys : j # k => replaced[j].idat # replaced[k].idat

(* C28: after sendPatients stored a set of records, requestPatients on     *)
(* newly created records with the same identities and empty payload brings *)
(* every record to FOUND with the mdat that was sent for its identity.     *)
C28_RequestFindsStored ==
    StoredThenRequested =>
       \A k \in Keys : patients[k].status = FOUND /\ patients[k].mdat = replaced[k].mdat

(* the exchange of C28 restricted to identities the form body carries whole *)
C28_PlainExchange ==
    (StoredThenRequested /\ \A k \in Keys : Plain(replaced[k].idat)) =>
       \A k \in Keys : patients[k].status = FOUND /\ patients[k].mdat = replaced[k].mdat

(* the exchange brought every record to FOUND with the payload sent *)
C28_Witness ==
    /\ StoredThenRequested
    /\ \E j, k \in Keys : replaced[j].mdat # replaced[k].mdat
    /\ \A k \in Keys : patients[k].status = FOUND /\ patients[k].mdat = replaced[k].mdat


(* the answer in flight is the one PatientController.requestPatients gives *)
DemonstratorAnswered ==
    /\ inflight.kind = "request"
    /\ response.kind = "http"
    /\ response.ok
    /\ response.json = requestPatients(store, inflight.data)

(* C29: with the demonstrator backend, requestPatients sets a record to    *)
(* NOT_FOUND and leaves its mdat unchanged when the backend holds no entry *)
(* for its pseudonym, and sets FOUND only when a stored entry exists.      *)
C29_NotFoundWhenAbsent ==
    [][(ExchangeReturns("request") /\ DemonstratorAnswered) =>
          \A k \in Range(hp.pseudonymized) :
             /\ patients[k].pseudonym \notin DOMAIN store =>
                  /\ patients'[k].status = NOT_FOUND
                  /\ patients'[k].mdat = patients[k].mdat
             /\ patients'[k].status = FOUND => patients[k].pseudonym \in DOMAIN store]_vars

(* requestPatients returned and a record without a stored entry is FOUND   *)
(* with the placeholder payload                                            *)
C29_Witness ==
    /\ pc = "settled"
    /\ hp.op = "request"
    /\ result = "returned"
    /\ \E k \in Keys :
         /\ patients[k].status = FOUND
         /\ patients[k].pseudonym \notin DOMAIN store
         /\ patients[k].mdat = "{}"


(***************************************************************************)
(* The states after the medical-data exchange                              *)
(***************************************************************************)
(* C30: a record is PROCESSED, NOT_PROCESSED, FOUND or NOT_FOUND after a   *)
(* step only if before the step it was PSEUDONYMIZED or already in one of  *)
(* these states, with the same idat and the same pseudonym, which is not   *)
(* null: such a state is never entered from CREATED or a failure state,    *)
(* and the record was PSEUDONYMIZED earlier with its current identity.     *)
C30_PostSyncOnlyAfterPseudonymized ==
    [][\A k \in Keys :
          patients'[k].status \in PostSyncStatuses =>
             /\ patients[k].status \in {PSEUDONYMIZED} \cup PostSyncStatuses
             /\ patients'[k].idat = patients[k].idat
             /\ patients'[k].pseudonym = patients[k].pseudonym
             /\ patients'[k].pseudonym # Null]_vars

(* the exchange moved a record that the same invocation pseudonymized, next *)
(* to a record that did not get a pseudonym                                 *)
C30_Witness ==
    /\ pc = "settled"
    /\ hp.op \in {"send", "request"}
    /\ atCall # NoSnapshot
    /\ \E j, k \in Keys :
         /\ atCall[j].status = CREATED
         /\ patients[j].status \in PostSyncStatuses
         /\ patients[j].pseudonym # Null
         /\ patients[k].status \notin {PSEUDONYMIZED} \cup PostSyncStatuses


(***************************************************************************)
(* The requests of one invocation                                          *)
(***************************************************************************)
(* the identity submissions the running invocation has issued *)
Submissions == SelectSeq(issued, LAMBDA f : f.kind = "submit")

(* C31: within one sendPatients/requestPatients invocation every record is *)
(* submitted to the identity-submission endpoint at most once: a record    *)
(* that failed in the create pass is not resubmitted by the resolve pass,  *)
(* and a record that failed in the resolve pass is not submitted again.    *)
C31_SubmittedAtMostOnce ==
    \A i, j \in DOMAIN Submissions :
       Submissions[i].key = Submissions[j].key => i = j

(* an invocation ended with a record that failed in the create pass and a  *)
(* record that failed in the resolve pass, each submitted once             *)
C31_Witness ==
    /\ pc = "settled"
    /\ atCall # NoSnapshot
    /\ \E j, k \in Keys :
         /\ atCall[j].status = CREATED
         /\ patients[j].status \in {IDAT_CONFLICT, IDAT_INVALID, TOKEN_INVALID}
         /\ atCall[k].status \in {IDAT_CONFLICT, IDAT_INVALID, TOKEN_INVALID}
         /\ patients[k].status \in {IDAT_CONFLICT, IDAT_INVALID, TOKEN_INVALID}
         /\ \E m, n \in DOMAIN Submissions :
              /\ Submissions[m] = Fetch("submit", j, "create")
              /\ Submissions[n] = Fetch("submit", k, "resolve")


(* the fetches resolveConflicts has issued, its nested createPseudonyms included *)
ResolveFetches == SelectSeq(issued, LAMBDA f : f.pass \in {"resolve", "resolve-create"})

(* resolveConflicts has returned to handlePseudonymization or has thrown *)
ResolveOver == pc \in {"mdat", "await_mdat", "settled", "idle"}

(* C32: provided every fetch is answered, a resolveConflicts call ends,    *)
(* and it issues at most one fetch per input record plus one token         *)
(* request, however many records are still in a failure state afterwards.  *)
C32_ResolveTerminatesBounded ==
    /\ [](/\ Len(ResolveFetches) <= Len(rc.keys) + 1
          /\ Len(SelectSeq(ResolveFetches, LAMBDA f : f.kind = "token")) <= 1
          /\ Len(SelectSeq(ResolveFetches, LAMBDA f : f.kind = "submit")) <= Len(rc.keys))
    /\ (pc = "resolve_loop") ~> ResolveOver

(* resolveConflicts returned after one fetch per record, and every record  *)
(* of its input is still in a failure state                                *)
C32_Witness ==
    /\ pc = "mdat"
    /\ Len(rc.keys) = NumKeys
    /\ Len(ResolveFetches) = Len(rc.keys)
    /\ \A k \in Range(rc.keys) :
         patients[k].status \in {IDAT_CONFLICT, IDAT_INVALID, TOKEN_INVALID}


(* the keys of the identity submissions among fetches *)
KeysOf(fetches) ==
    LET subs == SelectSeq(fetches, LAMBDA f : f.kind = "submit")
    IN [i \in DOMAIN subs |-> subs[i].key]

IsPrefix(a, b) == Len(a) <= Len(b) /\ \A i \in DOMAIN a : a[i] = b[i]

(* the position of a key in a list of distinct keys *)
IndexOf(list, key) == CHOOSE i \in DOMAIN list : list[i] = key

(* the keys are keys of the list and follow each other in its order *)
InOrderOf(keys, list) ==
    /\ Range(keys) \subseteq Range(list)
    /\ \A i, j \in DOMAIN keys : i < j => IndexOf(list, keys[i]) < IndexOf(list, keys[j])

(* a fetch is issued only when no fetch is in flight, and the fetch in     *)
(* flight is the one issued last                                           *)
OneInFlight ==
    /\ (issued' # issued /\ issued' # <<>>) =>
          /\ inflight.kind = "none"
          /\ response.kind = "none"
          /\ Len(issued') = Len(issued) + 1
          /\ inflight'.kind = issued'[Len(issued')].kind
    /\ inflight'.kind \in {"token", "submit", "send", "request"} => issued' # <<>>

(* the fetches of the pass, and what a returning createPseudonyms on the   *)
(* keys issues: one token request, then one submission per key in order    *)
FetchesOf(pass) == SelectSeq(issued, LAMBDA f : f.pass = pass)

CreateFetches(keys, pass) ==
    IF Len(keys) = 0 THEN <<>>
    ELSE <<Fetch("token", UndefinedKey, pass)>> \o
         [i \in DOMAIN keys |-> Fetch("submit", keys[i], pass)]

(* createPseudonyms issues a prefix of its fetches, and all of them when   *)
(* it returns                                                              *)
CreateShape ==
    /\ IsPrefix(FetchesOf("create"), CreateFetches(hp.created, "create"))
    /\ cp.caller = "resolve" =>
          IsPrefix(FetchesOf("resolve-create"), CreateFetches(cp.keys, "resolve-create"))
    /\ cp.caller # "resolve" => FetchesOf("resolve-create") = <<>>
    /\ pc = "create_return" =>
          FetchesOf(PassOf(cp.caller)) = CreateFetches(cp.keys, PassOf(cp.caller))

(* C33 as stated: within one invocation at most one fetch is in flight,    *)
(* the identity submissions are issued in the order of the key list, and   *)
(* createPseudonyms on n records has issued one token request followed by  *)
(* n submissions when it returns with n > 0 and no fetch with n = 0.       *)
C33_SubmissionsInKeyListOrder ==
    [][/\ OneInFlight
       /\ InOrderOf(KeysOf(issued), hp.keys)'
       /\ CreateShape']_vars

(* the passes follow each other: create, resolve, exchange *)
PassRank(pass) ==
    CASE pass = "create" -> 1
      [] pass = "resolve" -> 2
      [] pass = "resolve-create" -> 3
      [] pass = "exchange" -> 4

PassesInOrder ==
    /\ \A i, j \in DOMAIN issued : i < j => PassRank(issued[i].pass) <= PassRank(issued[j].pass)
    /\ Len(FetchesOf("exchange")) <= 1

(* C33, amended: at most one fetch is in flight; the create pass submits   *)
(* the records to create in key-list order, then the resolve pass submits  *)
(* the records in a failure state in key-list order, then comes the one    *)
(* medical-data fetch; a createPseudonyms on n > 0 records issues one      *)
(* token request and then submissions in order, n of them when it returns, *)
(* and none with n = 0.                                                    *)
C33_SubmissionsInPassOrder ==
    [][/\ OneInFlight
       /\ PassesInOrder'
       /\ InOrderOf(KeysOf(FetchesOf("create")), hp.keys)'
       /\ InOrderOf(KeysOf(FetchesOf("resolve")), hp.keys)'
       /\ InOrderOf(KeysOf(FetchesOf("resolve-create")), hp.keys)'
       /\ CreateShape']_vars

(* an invocation submitted a later key in its create pass before an        *)
(* earlier key in its resolve pass, and exchanged medical data afterwards  *)
C33_Witness ==
    /\ pc = "settled"
    /\ Len(issued) >= 4
    /\ issued[1].kind = "token"
    /\ \E i, j \in DOMAIN issued :
         /\ i < j
         /\ issued[i].kind = "submit" /\ issued[i].pass = "create"
         /\ issued[j].kind = "submit" /\ issued[j].pass = "resolve"
         /\ issued[j].key < issued[i].key
    /\ issued[Len(issued)].pass = "exchange"


(* the identity submission of the record at gp.key throws in this step:    *)
(* the fetch failed or the answer has an unknown status                    *)
SubmissionThrows ==
    /\ pc = "await_submit"
    /\ response.kind # "none"
    /\ \/ response.kind # "http"
       \/ response.status \notin {201, 400, 401, 409}

(* the running invocation ended in the throw of an identity submission *)
EndedInSubmission == pc = "settled" /\ gp.returned = "threw"

(* C34: when the identity submission of a record throws on a transport     *)
(* failure or an unknown response, the batch operation throws, no          *)
(* medical-data fetch is issued for any key, and every other record keeps  *)
(* the status, pseudonym and token fields the batch had committed for it,  *)
(* also when the caller observes the rejection.                            *)
C34_ThrowAbortsBatch ==
    [][/\ SubmissionThrows =>
            /\ pc' = "settled"
            /\ result' = "threw"
            /\ FetchesOf("exchange")' = <<>>
            /\ inflight' = NoFetch
            /\ \A k \in Keys \ {gp.key} : patients'[k] = patients[k]
       /\ EndedInSubmission =>
            /\ result = "threw"
            /\ FetchesOf("exchange") = <<>>
            /\ patients' = patients]_vars

(* the submission of the second record threw after this batch had          *)
(* pseudonymized the first                                                 *)
C34_Witness ==
    /\ EndedInSubmission
    /\ gp.response.kind = "undefined" \/ gp.response.status \notin {201, 400, 401, 409}
    /\ Len(KeysOf(issued)) = 2
    /\ \E k \in Keys \ {gp.key} :
         /\ atCall[k].status = CREATED
         /\ patients[k].status = PSEUDONYMIZED
         /\ patients[k].pseudonym # Null
         /\ patients[k].tokenURL = Null


(* the fields of a record that are neither its status nor its token fields *)
Payload(patient) ==
    [pseudonym |-> patient.pseudonym, idat |-> patient.idat, mdat |-> patient.mdat,
     sureness |-> patient.sureness, tentative |-> patient.tentative]

(* C35: when the answer to the identity submission of a record is 400, 401 *)
(* or 409, the record's pseudonym, idat, mdat, sureness and tentative stay *)
(* as they were; only its status and token fields change, and no other     *)
(* record changes.                                                         *)
C35_FailureKeepsPayload ==
    [][(/\ pc = "await_submit"
        /\ response.kind = "http"
        /\ response.status \in {400, 401, 409}) =>
          /\ Payload(patients'[gp.key]) = Payload(patients[gp.key])
          /\ patients'[gp.key].status \in {IDAT_INVALID, TOKEN_INVALID, IDAT_CONFLICT}
          /\ \A k \in Keys \ {gp.key} : patients'[k] = patients[k]]_vars

(* a record that held a pseudonym was submitted again and refused; it      *)
(* still holds the pseudonym                                               *)
C35_Witness ==
    /\ pc \in {"create_loop", "resolve_loop"}
    /\ gp.returned = "false"
    /\ gp.response.status \in {400, 401, 409}
    /\ patients[gp.key].status \in {IDAT_INVALID, TOKEN_INVALID, IDAT_CONFLICT}
    /\ atCall[gp.key].pseudonym # Null
    /\ patients[gp.key].pseudonym = atCall[gp.key].pseudonym


(***************************************************************************)
(* The fields of a record by its status                                    *)
(***************************************************************************)
(* C36: when no operation is running and no operation has thrown so far, a *)
(* record with status CREATED has a null pseudonym and a null tokenURL, as *)
(* it has directly after createPatient.                                    *)
C36_CreatedIsBlank ==
    (pc = "idle" /\ ~thrown) =>
       \A k \in Keys :
          patients[k].status = CREATED =>
             patients[k].pseudonym = Null /\ patients[k].tokenURL = Null

(* updateMDAT has set a sent or requested record back to CREATED: the      *)
(* record still holds its pseudonym                                        *)
C36_Witness ==
    /\ pc = "idle"
    /\ ~thrown
    /\ lastEdit.op = "updateMDAT"
    /\ patients[lastEdit.key].status = CREATED
    /\ patients[lastEdit.key].pseudonym # Null
    /\ patients[lastEdit.key].tokenURL = Null
    /\ patients[lastEdit.key].tokenUseCallback = JSTrue


(* the token URL of the last identity submission of the record *)
LastSubmissionIs(k, url) == <<url, k>> \in redeemed

(* a record in IDAT_INVALID or IDAT_CONFLICT holds the token of a submission *)
FailedHoldsToken(k) ==
    patients[k].status \in {IDAT_INVALID, IDAT_CONFLICT} =>
       /\ patients[k].tokenURL # Null
       /\ LastSubmissionIs(k, patients[k].tokenURL)

(* a record in TOKEN_INVALID holds no token *)
TokenInvalidHoldsNone(k) ==
    patients[k].status = TOKEN_INVALID =>
       /\ patients[k].tokenURL = Null
       /\ patients[k].tokenUseCallback = JSNull

(* a record that is PSEUDONYMIZED or further holds a pseudonym and no token *)
SucceededHoldsPseudonym(k) ==
    patients[k].status \in {PSEUDONYMIZED} \cup PostSyncStatuses =>
       /\ patients[k].tokenURL = Null
       /\ patients[k].pseudonym # Null

(* C37: in every reachable state a record in IDAT_INVALID or IDAT_CONFLICT *)
(* holds a non-null tokenURL, the token of its last submission; a record   *)
(* in TOKEN_INVALID holds a null tokenURL and a null tokenUseCallback; a   *)
(* record that is PSEUDONYMIZED or in a post-sync status holds a null      *)
(* tokenURL and a non-null pseudonym.                                      *)
C37_FieldsByStatus ==
    \A k \in Keys :
       /\ FailedHoldsToken(k)
       /\ TokenInvalidHoldsNone(k)
       /\ SucceededHoldsPseudonym(k)


(* a record in IDAT_INVALID or IDAT_CONFLICT holds the URL of a submission *)
(* of it, which is null when it was submitted without a token              *)
FailedHoldsSubmitted(k) ==
    patients[k].status \in {IDAT_INVALID, IDAT_CONFLICT} =>
       LastSubmissionIs(k, patients[k].tokenURL)

(* a record that is PSEUDONYMIZED or further holds a pseudonym, and no     *)
(* token when no operation is running and none has thrown                  *)
SucceededHoldsPseudonymAtRest(k) ==
    patients[k].status \in {PSEUDONYMIZED} \cup PostSyncStatuses =>
       /\ patients[k].pseudonym # Null
       /\ (pc = "idle" /\ ~thrown) => patients[k].tokenURL = Null

(* C37, amended: a record in IDAT_INVALID or IDAT_CONFLICT holds the       *)
(* tokenURL of its last submission, the step that answers the submission   *)
(* with 400 or 409 assigning it, and that URL is null when the record was  *)
(* submitted without a token; a record in TOKEN_INVALID holds a null       *)
(* tokenURL and a null tokenUseCallback; a record that is PSEUDONYMIZED or *)
(* in a post-sync status holds a non-null pseudonym, and a null tokenURL   *)
(* when no operation is running and no operation has thrown.               *)
C37_FieldsByStatusAtRest ==
    [][/\ \A k \in Keys :
            /\ FailedHoldsSubmitted(k)'
            /\ TokenInvalidHoldsNone(k)'
            /\ SucceededHoldsPseudonymAtRest(k)'
       /\ (/\ pc = "await_submit"
           /\ response.kind = "http"
           /\ response.status \in {400, 409}) =>
             /\ patients'[gp.key].tokenURL = inflight.url
             /\ LastSubmissionIs(gp.key, inflight.url)
       /\ \A k \in Keys :
            (/\ patients[k].status \in {IDAT_INVALID, IDAT_CONFLICT}
             /\ patients'[k].status = patients[k].status
             /\ patients'[k].tokenURL # patients[k].tokenURL) =>
               /\ pc = "await_submit"
               /\ gp.key = k]_vars

(* a sent record was submitted again with a new token and the submission   *)
(* threw: the record is PROCESSED and holds the token                      *)
C37_Witness ==
    /\ pc = "idle"
    /\ thrown
    /\ \E k \in Keys :
         /\ patients[k].status \in PostSyncStatuses
         /\ patients[k].pseudonym # Null
         /\ patients[k].tokenURL # Null
         /\ LastSubmissionIs(k, patients[k].tokenURL)

(* a record that was TOKEN_INVALID was submitted without a token and       *)
(* refused: it is in IDAT_INVALID or IDAT_CONFLICT with a null tokenURL    *)
C37_WitnessNoToken ==
    \E k \in Keys :
       /\ patients[k].status \in {IDAT_INVALID, IDAT_CONFLICT}
       /\ patients[k].tokenURL = Null
       /\ LastSubmissionIs(k, Null)


(* the caller's edit of this step is an updateIDAT *)
UpdatesIDAT == edits' = edits + 1 /\ lastEdit'.op = "updateIDAT"

(* C38: updateIDAT with an invalid identity (a name that is empty after    *)
(* trimming, an invalid or a future birthdate) throws and leaves the       *)
(* record as it was: idat, status, pseudonym, tokenURL and every other     *)
(* field keep their values.                                                *)
C38_InvalidUpdateChangesNothing ==
    [][(/\ UpdatesIDAT
        /\ ~ValidInput(lastEdit'.firstname, lastEdit'.lastname, lastEdit'.birthday)) =>
          /\ lastEdit'.threw
          /\ thrown'
          /\ patients' = patients]_vars

(* updateIDAT threw on a record that holds a pseudonym: the record is as   *)
(* it was                                                                  *)
C38_Witness ==
    /\ lastEdit.op = "updateIDAT"
    /\ lastEdit.threw
    /\ ~NonBlank(lastEdit.firstname) \/ ~NotLater(lastEdit.birthday, Now)
    /\ patients[lastEdit.key].status \in {PSEUDONYMIZED} \cup PostSyncStatuses
    /\ patients[lastEdit.key].pseudonym # Null
    /\ ValidInput(patients[lastEdit.key].idat.firstname, patients[lastEdit.key].idat.lastname,
                  patients[lastEdit.key].idat.birthday)


(***************************************************************************)
(* A record edited during its submission                                   *)
(***************************************************************************)
(* the record-linkage service issued the pseudonym the record holds for    *)
(* the identity the record holds now                                       *)
IssuedForCurrentIdat(k) ==
    /\ patients[k].pseudonym \in DOMAIN registry
    /\ registry[patients[k].pseudonym].fields = FormFields(RequestBody(patients[k]))

(* C39: a record with status PSEUDONYMIZED holds a pseudonym the service   *)
(* issued for the record's current idat, also when updateIDAT is called on *)
(* the record while its identity submission awaits the answer.             *)
C39_PseudonymOfCurrentIdat ==
    \A k \in Keys :
       patients[k].status = PSEUDONYMIZED => IssuedForCurrentIdat(k)

(* a record was given another identity while its submission was awaiting   *)
(* the answer, and is PSEUDONYMIZED with the pseudonym of the identity     *)
(* that was submitted                                                      *)
C39_Witness ==
    /\ lastEdit.op = "updateIDAT"
    /\ patients[lastEdit.key].status = PSEUDONYMIZED
    /\ patients[lastEdit.key].pseudonym \in DOMAIN registry
    /\ registry[patients[lastEdit.key].pseudonym].fields
         # FormFields(RequestBody(patients[lastEdit.key]))


(***************************************************************************)
(* Repeating an aborted sendPatients call                                  *)
(***************************************************************************)
(* a sendPatients call has ended with an exception *)
Aborted == pc = "settled" /\ result = "threw" /\ hp.op = "send"

(* from here on the service and the backend are available and accept every *)
(* record: no answer fails any more                                        *)
AcceptsEveryRecord == ~MayFail

(* C40: when sendPatients is repeated after it was aborted by an exception *)
(* and the service and the backend accept every record, every record of    *)
(* the batch that was CREATED or PSEUDONYMIZED at the abort is PROCESSED   *)
(* in the end.                                                             *)
C40_RepeatReachesProcessed ==
    \A k \in Keys :
       (Aborted /\ AcceptsEveryRecord /\ patients[k].status \in {CREATED, PSEUDONYMIZED})
          ~> (patients[k].status = PROCESSED)

(* a repetition of an aborted call has brought a record to PROCESSED *)
C40_Witness ==
    /\ thrown
    /\ pc = "settled"
    /\ result = "returned"
    /\ \A k \in Keys : patients[k].status = PROCESSED

=============================================================================
